---- MODULE Spec2Model ----
(***************************************************************************)
(* A model of the generic admin CRUD engine of flask_admin                 *)
(* (src/admin/views.py, with the first iteration's delete handler of       *)
(* src/views.py).  Storage rows, the revision table, the login session and *)
(* the last request served are the state; every route handler is one       *)
(* action that models the whole handler.                                   *)
(***************************************************************************)
EXTENDS Integers, Sequences, FiniteSets, TLC

(***************************************************************************)
(* Bounds of the model.                                                    *)
(***************************************************************************)
\* primary keys handed out per table are 1..MaxId
MaxId == 2
\* rows the revision table can hold
MaxRevisions == 1
\* bcrypt salts get_hashed_password can draw
MaxSalt == 1
\* data rows of an uploaded CSV file
MaxRows == 2
\* rows of the largest table the read-only routes are run over
MaxEntities == 21
\* the decimal numerals a form field or a CSV cell can carry are 0..MaxNumber
MaxNumber == 30
\* edit requests that can be in progress at the same time
MaxRequests == 2
\* descriptor classes in admin_view.py
MaxClasses == 3

(***************************************************************************)
(* Values.  A Python / SQL value is a record [tag, v]; the tag is the      *)
(* value's type, so text "10" and integer 10 are different values.         *)
(***************************************************************************)
Null == [tag |-> "null", v |-> ""]
Str(s) == [tag |-> "str", v |-> s]
IntV(n) == [tag |-> "int", v |-> n]
FloatV(n) == [tag |-> "float", v |-> n]
BoolV(b) == [tag |-> "bool", v |-> b]
ListV(q) == [tag |-> "list", v |-> q]
\* the text bcrypt.generate_password_hash returns for password p under a salt
HashV(p, salt) == [tag |-> "hash", v |-> <<p, salt>>]
\* an exception raised while a value is computed
Raise(e) == [tag |-> "raise", v |-> e]

IsRaise(x) == x.tag = "raise"

\* Python truthiness of a value (`x if x else None`, `x or None`)
Truthy(x) ==
    CASE x.tag = "null" -> FALSE
      [] x.tag = "str" -> x.v # ""
      [] x.tag = "int" -> x.v # 0
      [] x.tag = "float" -> x.v # 0
      [] x.tag = "bool" -> x.v
      [] x.tag = "list" -> x.v # <<>>
      [] OTHER -> TRUE

\* str.lower() on the texts of the model
Lower(s) ==
    CASE s = "True" -> "true"
      [] s = "TRUE" -> "true"
      [] s = "False" -> "false"
      [] s = "Foo" -> "foo"
      [] s = "Bar" -> "bar"
      [] OTHER -> s

\* the decimal numerals of the model and the integers they denote
Numerals == {ToString(i) : i \in 0..MaxNumber}
NumeralValue ==
    [s \in Numerals |-> CHOOSE i \in 0..MaxNumber : ToString(i) = s]
ParseInt(s) == NumeralValue[s]

(***************************************************************************)
(* The registry: the descriptor classes of admin_view.py and the schema    *)
(* of their models, as the engine reads them.                              *)
(***************************************************************************)
Col(n, t, pk) == [name |-> n, type |-> t, pk |-> pk]

\* admin_configs["user"]["secret"]
SecretField == "password"

ResourceTypes == {"widget", "user", "mandi-receipt", "item"}
\* a resource-type identifier that no descriptor carries
UnknownType == "gadget"

\* model.__table__.columns, in declaration order, with str(column.type)
Columns(rt) ==
    CASE rt = "widget" ->
           << Col("id", "INTEGER", TRUE),
              Col("name", "VARCHAR(80)", FALSE),
              Col("qty", "INTEGER", FALSE),
              Col("created_at", "DATETIME", FALSE),
              Col("updated_at", "DATETIME", FALSE) >>
      [] rt = "user" ->
           << Col("id", "INTEGER", TRUE),
              Col("phone", "VARCHAR(20)", FALSE),
              Col("password", "VARCHAR(128)", FALSE),
              Col("roles", "VARCHAR(20)", FALSE),
              Col("created_at", "DATETIME", FALSE),
              Col("updated_at", "DATETIME", FALSE) >>
      [] rt = "item" ->
           << Col("id", "INTEGER", TRUE),
              Col("note", "TEXT", FALSE),
              Col("price", "FLOAT", FALSE),
              Col("due", "DATE", FALSE),
              Col("enabled", "BOOLEAN", FALSE),
              Col("created_at", "DATETIME", FALSE),
              Col("updated_at", "DATETIME", FALSE) >>
      [] rt = "mandi-receipt" ->
           << Col("id", "INTEGER", TRUE),
              Col("mandi_id", "INTEGER", FALSE),
              Col("mandi_name", "VARCHAR(80)", FALSE),
              Col("mandi_name_hi", "VARCHAR(80)", FALSE),
              Col("crop_id", "INTEGER", FALSE),
              Col("crop_name", "VARCHAR(80)", FALSE),
              Col("crop_name_hi", "VARCHAR(80)", FALSE),
              Col("booklet_number", "INTEGER", FALSE),
              Col("receipt_id", "INTEGER", FALSE),
              Col("receipt_date", "DATETIME", FALSE),
              Col("is_approved", "BOOLEAN", FALSE),
              Col("token_amount", "INTEGER", FALSE),
              Col("rejection_reason_ids", "JSON", FALSE),
              Col("created_at", "DATETIME", FALSE),
              Col("updated_at", "DATETIME", FALSE) >>

\* the attributes a descriptor class declares (hasattr on the class)
Descriptor(rt) ==
    CASE rt = "widget" ->
           [ has_protected |-> FALSE, protected_attributes |-> <<>>,
             revisions |-> TRUE, has_revision_model |-> TRUE,
             revision_has_edited_by |-> TRUE,
             revision_pk |-> "widget_id",
             after_create_callback |-> TRUE,
             after_update_callback |-> TRUE,
             after_delete_callback |-> TRUE ]
      [] rt = "user" ->
           [ has_protected |-> TRUE, protected_attributes |-> <<"roles">>,
             revisions |-> FALSE, has_revision_model |-> FALSE,
             revision_has_edited_by |-> FALSE,
             revision_pk |-> "user_id",
             after_create_callback |-> FALSE,
             after_update_callback |-> FALSE,
             after_delete_callback |-> FALSE ]
      [] rt = "item" ->
           [ has_protected |-> FALSE, protected_attributes |-> <<>>,
             revisions |-> FALSE, has_revision_model |-> FALSE,
             revision_has_edited_by |-> FALSE,
             revision_pk |-> "item_id",
             after_create_callback |-> FALSE,
             after_update_callback |-> FALSE,
             after_delete_callback |-> FALSE ]
      [] rt = "mandi-receipt" ->
           [ has_protected |-> TRUE,
             protected_attributes |-> <<"receipt_date">>,
             revisions |-> TRUE, has_revision_model |-> TRUE,
             revision_has_edited_by |-> TRUE,
             revision_pk |-> "sale_receipt_id",
             after_create_callback |-> FALSE,
             after_update_callback |-> TRUE,
             after_delete_callback |-> FALSE ]

\* a class of admin_view.py: its class name and its `name` attribute, the
\* resource-type identifier
Class(class, name) == [class |-> class, name |-> name]
\* what get_resource_class returns when no class matches
NoClass == Class("None", "")
\* the classes of admin_view.py in the order ast.walk yields them, the base
\* class FlaskAdmin taken out
AdminView ==
    << Class("WidgetAdmin", "widget"), Class("UserAdmin", "user"),
       Class("SaleReceiptAdmin", "mandi-receipt"),
       Class("ItemAdmin", "item") >>

(***************************************************************************)
(* Sequence helpers.                                                       *)
(***************************************************************************)
Range(q) == {q[i] : i \in 1..Len(q)}

RECURSIVE SelectNotIn(_, _)
\* the columns of q whose name is not in ignore, order kept
SelectNotIn(q, ignore) ==
    IF q = <<>> THEN <<>>
    ELSE IF Head(q).name \in ignore
         THEN SelectNotIn(Tail(q), ignore)
         ELSE <<Head(q)>> \o SelectNotIn(Tail(q), ignore)

Names(q) == [i \in 1..Len(q) |-> q[i].name]

primary_key_columns(rt) ==
    {Columns(rt)[i].name : i \in {j \in 1..Len(Columns(rt)) : Columns(rt)[j].pk}}

(***************************************************************************)
(* Attribute Introspector.                                                 *)
(***************************************************************************)
\* get_readable_attributes: every column but the primary key
get_readable_attributes(rt) ==
    SelectNotIn(Columns(rt), primary_key_columns(rt))

\* a slip that forgets the timestamp columns
get_editable_attributes_keeps_timestamps(rt) ==
    SelectNotIn(Columns(rt),
                primary_key_columns(rt)
                    \cup (IF Descriptor(rt).has_protected
                          THEN Range(Descriptor(rt).protected_attributes)
                          ELSE {}))

\* get_editable_attributes: every column but created_at, updated_at, the
\* primary key and the descriptor's protected_attributes
get_editable_attributes(rt) ==
    SelectNotIn(Columns(rt),
                {"created_at", "updated_at"}
                    \cup primary_key_columns(rt)
                    \cup (IF Descriptor(rt).has_protected
                          THEN Range(Descriptor(rt).protected_attributes)
                          ELSE {}))

(***************************************************************************)
(* Value Coercer.                                                          *)
(***************************************************************************)
\* Python's `sub in type_string` on the type strings of the schema
Contains(sub, t) ==
    CASE sub = "VARCHAR" -> t \in {"VARCHAR", "VARCHAR(20)", "VARCHAR(80)",
                                   "VARCHAR(128)"}
      [] sub = "INT" -> t \in {"INTEGER", "BIGINT", "SMALLINT"}
      [] OTHER -> FALSE

\* get_hashed_password: blank and None pass through, anything else is hashed
get_hashed_password(password, salt) ==
    IF password = Str("") \/ password = Null
    THEN password
    ELSE HashV(password.v, salt)

\* validate_resource_attribute (resource_type is not read by the code)
validate_resource_attribute(attribute, initial_value) ==
    IF \/ Contains("VARCHAR", attribute.type)
       \/ attribute.type = "TEXT"
       \/ attribute.type = "JSON"
    THEN IF Truthy(initial_value) THEN initial_value ELSE Null
    ELSE IF Contains("INT", attribute.type) \/ attribute.type = "FLOAT"
    THEN IF Truthy(initial_value) THEN initial_value ELSE Null
    ELSE IF attribute.type = "DATE" \/ attribute.type = "DATETIME"
    THEN IF Truthy(initial_value) THEN initial_value ELSE Null
    ELSE IF attribute.type = "BOOLEAN"
    THEN IF initial_value.tag # "bool"
         THEN IF initial_value.tag \notin {"str", "hash"}
              THEN Raise("AttributeError")        \* None.lower()
              ELSE IF initial_value.tag = "str"
                      /\ Lower(initial_value.v) = "true"
                   THEN BoolV(TRUE)
                   ELSE IF initial_value.tag = "str"
                           /\ Lower(initial_value.v) = "false"
                        THEN BoolV(FALSE)
                        ELSE Null
         ELSE BoolV(initial_value.v)
    ELSE Null

(***************************************************************************)
(* Storage layer: what a typed column keeps of the value bound to it when  *)
(* the session flushes (db.session.commit).                                *)
(***************************************************************************)
DbStore(type, value) ==
    IF value.tag = "null" THEN Null
    ELSE IF Contains("INT", type)
    THEN CASE value.tag = "int" -> value
           [] value.tag = "float" -> IntV(value.v)
           [] value.tag = "str" /\ value.v \in Numerals ->
                IntV(ParseInt(value.v))
           [] OTHER -> Raise("DataError")
    ELSE IF type = "FLOAT"
    THEN CASE value.tag = "float" -> value
           [] value.tag = "int" -> FloatV(value.v)
           [] value.tag = "str" /\ value.v \in Numerals ->
                FloatV(ParseInt(value.v))
           [] OTHER -> Raise("DataError")
    ELSE IF type = "BOOLEAN"
    THEN CASE value.tag = "bool" -> value
           [] value.tag = "str" /\ Lower(value.v) = "true" -> BoolV(TRUE)
           [] value.tag = "str" /\ Lower(value.v) = "false" -> BoolV(FALSE)
           [] OTHER -> Raise("DataError")
    ELSE value

ColNames(rt) == Range(Names(Columns(rt)))

\* the schema and the introspection results, tabulated once per type
Schema ==
    [rt \in ResourceTypes |->
        [n \in ColNames(rt) |-> CHOOSE c \in Range(Columns(rt)) : c.name = n]]
Editable == [rt \in ResourceTypes |-> get_editable_attributes(rt)]

AttrOf(rt, name) == Schema[rt][name]
ColType(rt, name) == Schema[rt][name].type
EditableNames(rt) == Range(Names(Editable[rt]))

\* the timestamp columns are filled by the storage layer; the engine never
\* writes them and the model keeps one instant
T0 == [tag |-> "time", v |-> "t0"]

\* the row INSERTed for model(**attributes_to_save) under primary key id
NewRow(rt, id, attributes_to_save) ==
    [c \in ColNames(rt) |->
        IF c \in primary_key_columns(rt) THEN IntV(id)
        ELSE IF c \in {"created_at", "updated_at"} THEN T0
        ELSE IF c \in DOMAIN attributes_to_save
             THEN DbStore(ColType(rt, c), attributes_to_save[c])
             ELSE Null]

\* the row an UPDATE leaves for the session's object `resource`: every
\* column keeps what its type makes of the attribute
FlushRow(rt, resource) ==
    [c \in ColNames(rt) |-> DbStore(ColType(rt, c), resource[c])]

HasRaise(row) == \E c \in DOMAIN row : IsRaise(row[c])

\* tables of the host application the receipt workflow reads
MandiModel == (1 :> [mandi_name |-> Str("M1"), mandi_name_hi |-> Str("M1hi")])
           @@ (2 :> [mandi_name |-> Str("M2"), mandi_name_hi |-> Str("M2hi")])
CropModel == (1 :> [crop_name |-> Str("C1"), crop_name_hi |-> Str("C1hi")])
\* ReceiptRejectionReason row whose short_description is the duplicate text
DuplicateReasonId == 9

(***************************************************************************)
(* State.                                                                  *)
(***************************************************************************)
VARIABLES
    db,            \* db[rt][id]: the committed row of table rt under key id
    next_id,       \* next_id[rt]: the next autoincrement primary key
    revisions,     \* the revision tables, in insertion order
    current_user,  \* id of the logged-in user, 0 when anonymous
    active,        \* the resource type this run's requests address
    last,          \* the request served last and its outcome
    sessions,      \* sessions[r]: the edit request r has in progress
    admin_view     \* the descriptor classes the process was started with

vars ==
    <<db, next_id, revisions, current_user, active, last, sessions,
      admin_view>>

\* get_resource_class (lines 233-239): the first class whose name is
\* resource_type, else None
get_resource_class(resource_type) ==
    LET found == {i \in 1..Len(admin_view) :
                    admin_view[i].name = resource_type}
    IN IF found = {} THEN NoClass
       ELSE admin_view[CHOOSE i \in found : \A j \in found : i <= j]

Ids == 1..MaxId
EmptyRow == [c \in {} |-> Null]
EmptyForm == [c \in {} |-> ""]

\* an uploaded CSV file: its header line and its data lines, cell by cell
NoFile == [header |-> <<>>, lines |-> <<>>]

NoRequest ==
    [ op |-> "none", method |-> "", rt |-> "", id |-> 0,
      form |-> EmptyForm, reasons |-> <<>>, file |-> NoFile, csv |-> <<>>,
      outcome |-> "", hooks |-> <<>>, steps |-> <<>>, existed |-> FALSE,
      pre |-> EmptyRow, saved |-> EmptyRow, editable |-> <<>>,
      storage_read |-> FALSE, archive |-> "", resource_class |-> NoClass,
      query |-> [search |-> "", from_date |-> "", to_date |-> "",
                 page |-> 0, per_page |-> 0],
      result |-> [items |-> <<>>, total |-> 0, header |-> <<>>,
                  lines |-> <<>>] ]

\* a request's own database session: what it has loaded and how far its
\* handler has run
Requests == 1..MaxRequests
NoSession ==
    [ pc |-> "idle", rt |-> "", id |-> 0, form |-> EmptyForm, salt |-> 0,
      resource |-> EmptyRow, stale |-> FALSE, seq |-> 0 ]
NoSessions == [r \in Requests |-> NoSession]

SeedUser ==
    [ id |-> IntV(1), phone |-> Str("p1"), password |-> HashV("pw1", 1),
      roles |-> Str("admin"), created_at |-> T0, updated_at |-> T0 ]

SeedReceipt(id, approved, token, reasons) ==
    [ id |-> IntV(id), mandi_id |-> IntV(1), mandi_name |-> Str("M1"),
      mandi_name_hi |-> Str("M1hi"), crop_id |-> IntV(1),
      crop_name |-> Str("C1"), crop_name_hi |-> Str("C1hi"),
      booklet_number |-> IntV(1), receipt_id |-> IntV(1),
      receipt_date |-> Str("d1"), is_approved |-> BoolV(approved),
      token_amount |-> IntV(token), rejection_reason_ids |-> ListV(reasons),
      created_at |-> T0, updated_at |-> T0 ]

\* the tables a fresh deployment starts from
SeedDb ==
    [rt \in ResourceTypes |->
        CASE rt = "user" -> (1 :> SeedUser)
          [] rt = "mandi-receipt" ->
               (1 :> SeedReceipt(1, TRUE, 5, <<>>))
               @@ (2 :> SeedReceipt(2, FALSE, 0, <<IntV(DuplicateReasonId)>>))
          [] OTHER -> [i \in {} |-> EmptyRow]]

Init ==
    /\ active \in ResourceTypes
    /\ db = SeedDb
    /\ next_id = [rt \in ResourceTypes |->
                    CASE rt = "widget" -> 1
                      [] rt = "user" -> 2
                      [] rt = "item" -> 1
                      [] rt = "mandi-receipt" -> 3]
    /\ revisions = <<>>
    /\ current_user = 0
    /\ last = NoRequest
    /\ sessions = NoSessions
    /\ admin_view = AdminView

(***************************************************************************)
(* Requests: the inputs the routing layer hands to a handler.              *)
(***************************************************************************)
Absent == "<absent>"

\* the texts a form can carry per field; Absent leaves the key out
FieldInputs(rt) ==
    CASE rt = "widget" ->
           [name |-> {Absent, "", "Foo"},
            qty |-> {Absent, "", "10", "abc"}]
      [] rt = "user" ->
           [phone |-> {Absent, "p2"},
            password |-> {Absent, "", "pw2"}]
      [] rt = "mandi-receipt" ->
           [mandi_id |-> {Absent, "2"},
            is_approved |-> {Absent, "true"}]
      [] rt = "item" ->
           [note |-> {Absent, ""},
            price |-> {"", "5"},
            due |-> {""},
            enabled |-> {Absent, "", "True", "yes"}]
      [] OTHER -> [name |-> {"Foo"}]

FormOf(c) == [k \in {j \in DOMAIN c : c[j] # Absent} |-> c[k]]

Forms(rt) ==
    LET fi == FieldInputs(rt)
        all == UNION {fi[k] : k \in DOMAIN fi}
    IN {FormOf(c) : c \in {d \in [DOMAIN fi -> all] :
                              \A k \in DOMAIN fi : d[k] \in fi[k]}}

\* request.form.getlist("rejection_reasons_<id>[]")
ReasonLists(rt) == IF rt = "mandi-receipt" THEN {<<>>, <<"3">>} ELSE {<<>>}

FormsOf == [rt \in ResourceTypes \cup {UnknownType} |-> Forms(rt)]

Salts == 1..MaxSalt
Targets == {active, UnknownType}
Methods == {"GET", "POST"}

\* request.form.get(name): the text, or None when the key is absent
FormGet(form, name) ==
    IF name \in DOMAIN form THEN Str(form[name]) ELSE Null

\* flask_login: the session's user is loaded from the user table
Authenticated == current_user \in DOMAIN db["user"]

Request(op, method, rt, id, form) ==
    [NoRequest EXCEPT !.op = op, !.method = method, !.rt = rt, !.id = id,
                      !.form = form]

\* a response that leaves storage and the session as they are
Reply(req, outcome) ==
    /\ last' = [req EXCEPT !.outcome = outcome]
    /\ UNCHANGED <<db, next_id, revisions, current_user, active, sessions, admin_view>>

Hook(name, resource, old) ==
    [name |-> name, resource |-> resource, old |-> old]

\* the calls of a request that got as far as its commit, in the order the
\* code makes them
Declared(resource_type, callback) ==
    IF Descriptor(resource_type)[callback] THEN <<callback>> ELSE <<>>

\* an update whose hook runs before the revision is written
edit_steps_hook_first(resource_type) ==
    <<"commit">> \o Declared(resource_type, "after_update_callback")
                \o <<"handle_resource_revision">>

\* lines 754-758
create_steps(resource_type) ==
    <<"commit">> \o Declared(resource_type, "after_create_callback")

\* lines 920-931
edit_steps(resource_type) ==
    <<"commit", "handle_resource_revision">>
        \o Declared(resource_type, "after_update_callback")

\* lines 965-972
delete_steps(resource_type, existed) ==
    IF existed
    THEN <<"commit">> \o Declared(resource_type, "after_delete_callback")
    ELSE <<>>


(***************************************************************************)
(* login / logout (src/admin/views.py 467-536).                            *)
(***************************************************************************)
login(phone, password) ==
    LET req == [Request("login", "POST", "", 0,
                        [phone |-> phone, password |-> password])
                  EXCEPT !.storage_read = TRUE]
        found == {u \in DOMAIN db["user"] : db["user"][u].phone = Str(phone)}
    IN IF found = {}
       THEN Reply(req, "render")
       ELSE \E u \in found :
              LET stored == db["user"][u].password
              IN IF stored.tag # "hash"
                 THEN Reply(req, "error")      \* bcrypt: invalid salt
                 ELSE IF stored.v[1] = password
                      THEN /\ current_user' = u
                           /\ last' = [req EXCEPT !.outcome = "redirect"]
                           /\ UNCHANGED <<db, next_id, revisions, active,
                                          sessions, admin_view>>
                      ELSE Reply(req, "render")

logout ==
    LET req == Request("logout", "GET", "", 0, EmptyForm)
    IN /\ current_user' = 0
       /\ last' = [req EXCEPT !.outcome = "redirect"]
       /\ UNCHANGED <<db, next_id, revisions, active, sessions, admin_view>>

\* @login_required on a view: an anonymous request is turned away before
\* the view runs
Views == {"logout", "resource_create", "resource_read", "resource_edit",
          "resource_delete", "legacy_resource_delete", "resource_upload"}
login_required(view) ==
    /\ ~Authenticated
    /\ Reply(Request(view, "", "", 0, EmptyForm), "unauthorized")

(***************************************************************************)
(* resource_create (src/admin/views.py 701-760).                           *)
(***************************************************************************)
\* attributes_to_save of resource_create: every editable attribute, from
\* the form, the secret hashed, each passed through the validator
create_attributes(resource_type, form, salt) ==
    [n \in EditableNames(resource_type) |->
        validate_resource_attribute(
            AttrOf(resource_type, n),
            IF n = SecretField
            THEN get_hashed_password(FormGet(form, n), salt)
            ELSE FormGet(form, n))]

resource_create(resource_type, method, form, salt) ==
    LET req == Request("resource_create", method, resource_type, 0, form)
    IN IF get_resource_class(resource_type) = NoClass
       THEN Reply(req, "error")                \* None.model
       ELSE
         LET rt == resource_type
             attributes_to_save == create_attributes(rt, form, salt)
             new_resource == NewRow(rt, next_id[rt], attributes_to_save)
             seen == [req EXCEPT !.storage_read = TRUE,
                        !.editable = Names(Editable[rt])]
         IN IF method = "GET" THEN Reply(seen, "render")
            ELSE IF HasRaise(attributes_to_save) THEN Reply(seen, "error")
            ELSE IF HasRaise(new_resource)
            THEN Reply([seen EXCEPT !.saved = attributes_to_save], "error")
            ELSE /\ next_id[rt] <= MaxId
                 /\ db' = [db EXCEPT ![rt] = @ @@ (next_id[rt] :> new_resource)]
                 /\ next_id' = [next_id EXCEPT ![rt] = @ + 1]
                 /\ last' = [seen EXCEPT
                       !.id = next_id[rt],
                       !.saved = attributes_to_save,
                       !.outcome = "redirect",
                       !.steps = create_steps(rt),
                       !.hooks =
                          IF Descriptor(rt).after_create_callback
                          THEN <<Hook("after_create_callback",
                                      new_resource, EmptyRow)>>
                          ELSE <<>>]
                 /\ UNCHANGED <<revisions, current_user, active, sessions, admin_view>>

(***************************************************************************)
(* resource_read (src/admin/views.py 763-801).                             *)
(***************************************************************************)
resource_read(resource_type, resource_id) ==
    LET req == Request("resource_read", "GET", resource_type, resource_id,
                       EmptyForm)
    IN IF get_resource_class(resource_type) = NoClass
       THEN Reply(req, "error")
       ELSE LET seen == [req EXCEPT !.storage_read = TRUE]
            IN IF resource_id \notin DOMAIN db[resource_type]
               THEN Reply(seen, "redirect")
               ELSE Reply([seen EXCEPT !.existed = TRUE,
                             !.pre = db[resource_type][resource_id]],
                          "render")

(***************************************************************************)
(* handle_resource_revision (src/admin/views.py 1247-1294): the revision   *)
(* rows the call inserts, none or one.                                     *)
(***************************************************************************)
SystemColumns == {"id", "created_at", "updated_at"}

\* is_modified: some non-system attribute of the clone differs from the
\* committed object
is_modified(old_resource, new_resource) ==
    \E column \in DOMAIN old_resource \ SystemColumns :
        old_resource[column] # new_resource[column]

\* cloned_attributes_to_save
cloned_attributes(resource_type, old_resource, user_id) ==
    LET D == Descriptor(resource_type)
        kept == DOMAIN old_resource \ SystemColumns
        by == IF user_id # 0 /\ D.revision_has_edited_by
              THEN {"edited_by"} ELSE {}
    IN [c \in kept \cup {D.revision_pk} \cup by |->
          IF c = "edited_by" THEN IntV(user_id)
          ELSE IF c = D.revision_pk THEN old_resource["id"]
          ELSE old_resource[c]]

handle_resource_revision(resource_type, old_resource, new_resource, user_id) ==
    LET D == Descriptor(resource_type)
    IN IF D.has_revision_model /\ D.revisions
       THEN IF ~is_modified(old_resource, new_resource)
            THEN <<>>
            ELSE << [rt |-> resource_type,
                     row |-> cloned_attributes(resource_type, old_resource,
                                               user_id)] >>
       ELSE <<>>

(***************************************************************************)
(* resource_edit (src/admin/views.py 804-936).                             *)
(***************************************************************************)
\* a loop that sets every editable attribute from request.form.get, as a
\* full replacement would
edit_assigned_every_attribute(resource_type, form) ==
    EditableNames(resource_type)

\* a loop without the `continue` for a blank secret
edit_assigned_with_blank_secret(resource_type, form) ==
    {n \in EditableNames(resource_type) : n \in DOMAIN form}

\* the attributes the POST loop sets: editable, present in the form, and
\* not the secret field submitted blank
edit_assigned(resource_type, form) ==
    {n \in EditableNames(resource_type) :
        /\ n \in DOMAIN form
        /\ ~(n = SecretField /\ form[n] = "")}

\* the value the POST loop gives attribute n
edit_value(resource_type, form, salt, n) ==
    validate_resource_attribute(
        AttrOf(resource_type, n),
        IF n = SecretField
        THEN get_hashed_password(FormGet(form, n), salt)
        ELSE FormGet(form, n))

\* primary key a Query.get / filter argument denotes, 0 when it finds no row
KeyOf(value) ==
    CASE value.tag = "int" -> value.v
      [] value.tag = "str" /\ value.v \in Numerals -> ParseInt(value.v)
      [] OTHER -> 0

\* the approved receipt with the same booklet, receipt number, mandi and
\* date as `resource`, other than `resource` itself
existing_sale_receipt(resource) ==
    {o \in DOMAIN db["mandi-receipt"] :
        LET other == db["mandi-receipt"][o]
        IN /\ other.id # resource.id
           /\ other.booklet_number.tag # "null"
           /\ other.booklet_number = DbStore("INTEGER", resource.booklet_number)
           /\ other.receipt_id.tag # "null"
           /\ other.receipt_id = DbStore("INTEGER", resource.receipt_id)
           /\ other.mandi_id.tag # "null"
           /\ other.mandi_id = DbStore("INTEGER", resource.mandi_id)
           /\ other.is_approved = BoolV(TRUE)
           /\ other.receipt_date.tag # "null"
           /\ other.receipt_date = resource.receipt_date}

\* lines 879-918: the receipt's denormalised names and the duplicate check.
\* `shared` says that old_resource still holds the list object of
\* resource.rejection_reason_ids (copy.copy is shallow).
receipt_workflow(resource, old_resource, shared) ==
    LET mandi == KeyOf(resource.mandi_id)
        crop == KeyOf(resource.crop_id)
    IN IF mandi \notin DOMAIN MandiModel \/ crop \notin DOMAIN CropModel
       THEN [error |-> TRUE, resource |-> resource,
             old_resource |-> old_resource]
       ELSE
         LET named == [resource EXCEPT
                 !.mandi_name = MandiModel[mandi].mandi_name,
                 !.mandi_name_hi = MandiModel[mandi].mandi_name_hi,
                 !.crop_name = CropModel[crop].crop_name,
                 !.crop_name_hi = CropModel[crop].crop_name_hi]
             ids == named.rejection_reason_ids
         IN IF existing_sale_receipt(named) = {}
            THEN [error |-> FALSE, resource |-> named,
                  old_resource |-> old_resource]
            ELSE IF Truthy(ids) /\ ids.tag # "list"
            THEN [error |-> TRUE, resource |-> named,
                  old_resource |-> old_resource]   \* str has no append
            ELSE
              LET appended ==
                      IF Truthy(ids)
                      THEN ListV(Append(ids.v, IntV(DuplicateReasonId)))
                      ELSE ListV(<<IntV(DuplicateReasonId)>>)
              IN [error |-> FALSE,
                  resource |-> [named EXCEPT
                      !.rejection_reason_ids = appended,
                      !.is_approved = BoolV(FALSE),
                      !.token_amount = IntV(0)],
                  old_resource |->
                      IF Truthy(ids) /\ shared
                      THEN [old_resource EXCEPT
                              !.rejection_reason_ids = appended]
                      ELSE old_resource]

\* a request end that writes the session's pending changes to the table
flush_at_request_end(rt, stored, resource) == FlushRow(rt, resource)

\* lines 856-864: the request returns without db.session.commit(), so
\* what it set on `resource` is dropped with the session and the table
\* keeps the row as stored
rollback(rt, stored, resource) == stored

\* lines 837-853: the object in hand when copy.copy(resource) runs
edit_clone(resource_type, loaded, reasons) ==
    IF resource_type = "mandi-receipt"
    THEN [loaded EXCEPT !.rejection_reason_ids =
             ListV([i \in 1..Len(reasons) |-> Str(reasons[i])])]
    ELSE loaded

resource_edit(resource_type, resource_id, method, form, reasons, salt) ==
    LET req == [Request("resource_edit", method, resource_type, resource_id,
                        form) EXCEPT !.reasons = reasons]
    IN IF get_resource_class(resource_type) = NoClass
       THEN Reply(req, "error")                \* None.model
       ELSE
         LET rt == resource_type
             seen == [req EXCEPT !.storage_read = TRUE]
         IN IF resource_id \notin DOMAIN db[rt]
            THEN IF rt = "mandi-receipt"
                 THEN Reply(seen, "error")     \* None.rejection_reason_ids
                 ELSE Reply(seen, "redirect")
            ELSE
              LET loaded == db[rt][resource_id]
                  cloned == edit_clone(rt, loaded, reasons)
                  found == [seen EXCEPT !.existed = TRUE, !.pre = loaded,
                              !.editable = Names(Editable[rt])]
                  assigned == edit_assigned(rt, form)
                  set_to == [n \in assigned |-> edit_value(rt, form, salt, n)]
                  resource == [c \in DOMAIN cloned |->
                                 IF c \in assigned THEN set_to[c]
                                 ELSE cloned[c]]
                  flow == IF rt = "mandi-receipt"
                          THEN receipt_workflow(
                                   resource, cloned,
                                   "rejection_reason_ids" \notin assigned)
                          ELSE [error |-> FALSE, resource |-> resource,
                                old_resource |-> cloned]
                  stored == FlushRow(rt, flow.resource)
                  old_resource == flow.old_resource
                  written == handle_resource_revision(rt, old_resource,
                                                      stored, current_user)
                  posted == [found EXCEPT !.saved = set_to]
              IN IF method = "GET"
                 THEN /\ db' = [db EXCEPT ![rt][resource_id] =
                                   rollback(rt, loaded, cloned)]
                      /\ last' = [found EXCEPT !.outcome = "render"]
                      /\ UNCHANGED <<next_id, revisions, current_user,
                                     active, sessions, admin_view>>
                 ELSE IF HasRaise(set_to) \/ flow.error \/ HasRaise(stored)
                 THEN Reply(posted, "error")
                 ELSE /\ Len(revisions) + Len(written) <= MaxRevisions
                      /\ db' = [db EXCEPT ![rt][resource_id] = stored]
                      /\ revisions' = revisions \o written
                      /\ last' = [posted EXCEPT
                            !.outcome = "redirect",
                            !.steps = edit_steps(rt),
                            !.hooks =
                               IF Descriptor(rt).after_update_callback
                               THEN <<Hook("after_update_callback", stored,
                                           old_resource)>>
                               ELSE <<>>]
                      /\ UNCHANGED <<next_id, current_user, active, sessions, admin_view>>

(***************************************************************************)
(* resource_delete (src/admin/views.py 939-977, src/views.py 525-555).     *)
(***************************************************************************)
\* a delete that calls the hook whether or not the row was there
delete_hooks_unconditional(resource_type, existed, resource) ==
    IF Descriptor(resource_type).after_delete_callback
    THEN <<Hook("after_delete_callback", resource, EmptyRow)>>
    ELSE <<>>

\* lines 970-972: the hook runs for a row that was there, if declared
delete_hooks(resource_type, existed, resource) ==
    IF existed /\ Descriptor(resource_type).after_delete_callback
    THEN <<Hook("after_delete_callback", resource, EmptyRow)>>
    ELSE <<>>

WithoutRow(table, id) == [i \in DOMAIN table \ {id} |-> table[i]]

resource_delete(resource_type, resource_id) ==
    LET req == Request("resource_delete", "POST", resource_type, resource_id,
                       EmptyForm)
    IN IF get_resource_class(resource_type) = NoClass
       THEN Reply(req, "error")                \* None.model
       ELSE
         LET rt == resource_type
             existed == resource_id \in DOMAIN db[rt]
             resource == IF existed THEN db[rt][resource_id] ELSE EmptyRow
         IN /\ db' = [db EXCEPT ![rt] =
                        IF existed THEN WithoutRow(@, resource_id) ELSE @]
            /\ last' = [req EXCEPT
                  !.storage_read = TRUE, !.existed = existed,
                  !.pre = resource, !.outcome = "redirect",
                  !.steps = delete_steps(rt, existed),
                  !.hooks = delete_hooks(rt, existed, resource)]
            /\ UNCHANGED <<next_id, revisions, current_user, active, sessions, admin_view>>

\* src/views.py looks the descriptor up as <Type>Admin in globals()
LegacyTypes == {"widget", "user"}

legacy_resource_delete(resource_type, resource_id) ==
    LET req == Request("legacy_resource_delete", "POST", resource_type,
                       resource_id, EmptyForm)
    IN IF resource_type \notin LegacyTypes
       THEN Reply(req, "error")                \* KeyError
       ELSE
         LET rt == resource_type
             existed == resource_id \in DOMAIN db[rt]
             resource == IF existed THEN db[rt][resource_id] ELSE EmptyRow
         IN /\ db' = [db EXCEPT ![rt] =
                        IF existed THEN WithoutRow(@, resource_id) ELSE @]
            /\ last' = [req EXCEPT
                  !.storage_read = TRUE, !.existed = existed,
                  !.pre = resource, !.outcome = "redirect"]
            /\ UNCHANGED <<next_id, revisions, current_user, active, sessions, admin_view>>

(***************************************************************************)
(* resource_upload (src/admin/views.py 1088-1150).                         *)
(***************************************************************************)
NaN == [tag |-> "nan", v |-> ""]
BoolTexts == {"True", "False", "true", "false", "TRUE", "FALSE"}
\* the texts str() gives for the whole floats of the model: "5.0"
Decimals == {n \o ".0" : n \in Numerals}
ParseNumber(s) ==
    IF s \in Numerals THEN ParseInt(s) ELSE ParseInt(SubSeq(s, 1, Len(s) - 2))

\* pd.read_csv: the cell `text` of a column whose cells are `column`; the
\* column's dtype is inferred from all of its cells
read_csv_cell(column, text) ==
    LET filled == Range(column) \ {""}
    IN IF text = "" THEN NaN
       ELSE IF filled \subseteq Numerals
       THEN IF "" \in Range(column)
            THEN FloatV(ParseInt(text))
            ELSE IntV(ParseInt(text))
       ELSE IF filled \subseteq Numerals \cup Decimals
       THEN FloatV(ParseNumber(text))
       ELSE IF filled \subseteq BoolTexts
       THEN BoolV(Lower(text) = "true")
       ELSE Str(text)

\* csv_data: the frame read from the rows of texts
read_csv(rows) ==
    [i \in 1..Len(rows) |->
        [n \in DOMAIN rows[i] |->
            read_csv_cell([j \in 1..Len(rows) |-> rows[j][n]], rows[i][n])]]

\* lines 1118-1139: the value kept for one cell
upload_value(attribute, cell) ==
    LET attribute_value == IF cell.tag = "nan" THEN Null ELSE cell
    IN IF attribute.type \in {"VARCHAR", "TEXT", "JSON"}
       THEN IF Truthy(attribute_value) THEN attribute_value ELSE Null
       ELSE IF attribute.type = "INTEGER"
       THEN IF Truthy(attribute_value) THEN attribute_value ELSE Null
       ELSE IF attribute.type = "DATE" \/ attribute.type = "DATETIME"
       THEN IF Truthy(attribute_value) THEN attribute_value ELSE Null
       ELSE IF attribute.type = "BOOLEAN"
       THEN IF attribute_value.tag # "bool"
            THEN IF attribute_value.tag # "str"
                 THEN Raise("AttributeError")   \* no .lower()
                 ELSE BoolV(Lower(attribute_value.v) = "true")
            ELSE attribute_value
       ELSE attribute_value

upload_attributes(resource_type, row) ==
    [n \in EditableNames(resource_type) |->
        upload_value(AttrOf(resource_type, n), row[n])]

RECURSIVE upload_rows_skipping_failures(_, _, _, _)
\* a loop that drops a row that raises and goes on with the rows after it
upload_rows_skipping_failures(resource_type, frame, table, nid) ==
    IF frame = <<>>
    THEN [error |-> FALSE, table |-> table, next_id |-> nid]
    ELSE LET attributes_to_save == upload_attributes(resource_type, Head(frame))
             new_resource == NewRow(resource_type, nid, attributes_to_save)
         IN IF HasRaise(attributes_to_save) \/ HasRaise(new_resource)
            THEN [upload_rows_skipping_failures(resource_type, Tail(frame),
                                                table, nid)
                    EXCEPT !.error = TRUE]
            ELSE upload_rows_skipping_failures(resource_type, Tail(frame),
                             table @@ (nid :> new_resource), nid + 1)

RECURSIVE upload_rows(_, _, _, _)
\* the loop of lines 1115-1142: one INSERT and one commit per row; a row
\* that raises ends the request and leaves the earlier rows committed
upload_rows(resource_type, frame, table, nid) ==
    IF frame = <<>>
    THEN [error |-> FALSE, table |-> table, next_id |-> nid]
    ELSE LET attributes_to_save == upload_attributes(resource_type, Head(frame))
             new_resource == NewRow(resource_type, nid, attributes_to_save)
         IN IF HasRaise(attributes_to_save) \/ HasRaise(new_resource)
            THEN [error |-> TRUE, table |-> table, next_id |-> nid]
            ELSE upload_rows(resource_type, Tail(frame),
                             table @@ (nid :> new_resource), nid + 1)

\* the texts a CSV cell can carry per column
CellInputs(rt) ==
    CASE rt = "widget" -> [name |-> {"Foo"}, qty |-> {"", "10", "abc"}]
      [] rt = "user" -> [phone |-> {"p2"}, password |-> {"", "pw3"}]
      [] rt = "item" -> [note |-> {""}, price |-> {""}, due |-> {""},
                         enabled |-> {"", "True", "yes"}]
      [] OTHER -> [n \in EditableNames(rt) |-> {""}]

CsvRows(rt) ==
    LET ci == CellInputs(rt)
        all == UNION {ci[k] : k \in DOMAIN ci}
    IN {d \in [DOMAIN ci -> all] : \A k \in DOMAIN ci : d[k] \in ci[k]}

CsvFiles(rt) ==
    IF rt \notin ResourceTypes THEN {<<>>}
    ELSE UNION {[1..n -> CsvRows(rt)] : n \in 0..MaxRows}

\* what the object storage does with a file: "none" when no S3 key is
\* configured, "url" when the upload goes through, "exception" when
\* upload_fileobj raises
ArchiveResults == {"none", "url", "exception"}

\* an upload_file_to_s3 that lets the exception of upload_fileobj pass
upload_file_to_s3_uncaught(storage) ==
    IF storage = "none" THEN [raised |-> FALSE, value |-> "None"]
    ELSE IF storage = "exception" THEN [raised |-> TRUE, value |-> ""]
    ELSE [raised |-> FALSE, value |-> "url"]

\* upload_file_to_s3 (lines 100-125): None without a key, the URL, or the
\* exception it caught, returned
upload_file_to_s3(storage) ==
    IF storage = "none" THEN [raised |-> FALSE, value |-> "None"]
    ELSE IF storage = "exception"
    THEN [raised |-> FALSE, value |-> "exception"]
    ELSE [raised |-> FALSE, value |-> "url"]

\* the column of the file that pd.read_csv reads for the name n
usecol(header, n) == CHOOSE a \in 1..Len(header) : header[a] = n

\* the columns a read by position takes for col_names
usecols_by_position(file, col_names) ==
    [i \in 1..Len(file.lines) |->
        [n \in Range(col_names) |->
            file.lines[i][CHOOSE a \in 1..Len(col_names) : col_names[a] = n]]]

\* pd.read_csv(uploaded_file, usecols=col_names): the cells of the named
\* columns, wherever they stand in the file
usecols(file, col_names) ==
    [i \in 1..Len(file.lines) |->
        [n \in Range(col_names) |-> file.lines[i][usecol(file.header, n)]]]

\* the text in the cells of a column the rows say nothing about
OtherCell == "7"

\* the file that holds the rows `rows` under the header line `header`
Layout(header, rows) ==
    [header |-> header,
     lines |-> [i \in 1..Len(rows) |->
                  [a \in 1..Len(header) |->
                     IF header[a] \in DOMAIN rows[i]
                     THEN rows[i][header[a]] ELSE OtherCell]]]

resource_upload(resource_type, method, file, archive) ==
    LET req == [Request("resource_upload", method, resource_type, 0,
                        EmptyForm) EXCEPT !.file = file]
    IN IF get_resource_class(resource_type) = NoClass
       THEN Reply(req, "error")                \* None.model
       ELSE
         LET rt == resource_type
             col_names == Names(Editable[rt])
             seen == [req EXCEPT !.editable = col_names]
         IN IF method = "GET" THEN Reply(seen, "render")
            ELSE IF ~(Range(col_names) \subseteq Range(file.header))
            THEN Reply(seen, "error")          \* usecols not in the file
            ELSE LET rows == usecols(file, col_names)
                     done == upload_rows(rt, read_csv(rows), db[rt],
                                         next_id[rt])
                     \* lines 1144-1146, reached when no row raised
                     archived == upload_file_to_s3(archive)
                 IN
                 /\ db' = [db EXCEPT ![rt] = done.table]
                 /\ next_id' = [next_id EXCEPT ![rt] = done.next_id]
                 /\ last' = [seen EXCEPT
                       !.csv = rows,
                       !.storage_read = TRUE,
                       !.outcome = IF done.error \/ archived.raised
                                   THEN "error" ELSE "redirect",
                       !.archive = IF done.error THEN "" ELSE archive]
                 /\ UNCHANGED <<revisions, current_user, active, sessions, admin_view>>

(***************************************************************************)
(* filter_resources (src/admin/views.py 539-629): the query the list view  *)
(* and the CSV export run.                                                 *)
(***************************************************************************)
\* resource_class.list_display; "mandi.mandi_name" goes through the
\* receipt's many-to-one relationship `mandi`
list_display(rt) ==
    CASE rt = "widget" -> <<"id", "name", "qty">>
      [] rt = "user" -> <<"id", "phone", "roles">>
      [] rt = "item" -> <<"id", "note", "enabled">>
      [] rt = "mandi-receipt" -> <<"id", "booklet_number", "mandi.mandi_name">>

\* getattr(resource_class, "searchable_date_field", "created_at")
searchable_date_field(rt) ==
    IF rt = "mandi-receipt" THEN "receipt_date" ELSE "created_at"

\* the instants and request dates of the model, as day numbers
T1 == [tag |-> "time", v |-> "t1"]
T3 == [tag |-> "time", v |-> "t3"]
DayOfInstant == [t1 |-> 1, t0 |-> 2, t3 |-> 3, d1 |-> 1]
DayOfText == ("2024-01-01" :> 1) @@ ("2024-01-02" :> 2) @@ ("2024-01-03" :> 3)

\* str.lower() / ILIKE case folding, one character at a time
LowerTable ==
    [A |-> "a", B |-> "b", C |-> "c", D |-> "d", E |-> "e", F |-> "f",
     G |-> "g", H |-> "h", I |-> "i", J |-> "j", K |-> "k", L |-> "l",
     M |-> "m", N |-> "n", O |-> "o", P |-> "p", Q |-> "q", R |-> "r",
     S |-> "s", T |-> "t", U |-> "u", V |-> "v", W |-> "w", X |-> "x",
     Y |-> "y", Z |-> "z"]
LowerChar(c) == IF c \in DOMAIN LowerTable THEN LowerTable[c] ELSE c

RECURSIVE Like(_, _)
\* SQL `text ILIKE pattern`: % stands for any run of characters, _ for any
\* one character, every other character for itself with case ignored
Like(text, pattern) ==
    IF pattern = "" THEN text = ""
    ELSE LET p == SubSeq(pattern, 1, 1)
             rest == SubSeq(pattern, 2, Len(pattern))
         IN IF p = "%"
            THEN \/ Like(text, rest)
                 \/ text # "" /\ Like(SubSeq(text, 2, Len(text)), pattern)
            ELSE /\ text # ""
                 /\ p = "_" \/ LowerChar(SubSeq(text, 1, 1)) = LowerChar(p)
                 /\ Like(SubSeq(text, 2, Len(text)), rest)

RECURSIVE JoinTexts(_)
JoinTexts(q) ==
    IF q = <<>> THEN ""
    ELSE IF Len(q) = 1 THEN Head(q)
    ELSE Head(q) \o ", " \o JoinTexts(Tail(q))

\* cast(column, Text): the text the database makes of a stored value
CastText(value) ==
    CASE value.tag = "null" -> Null
      [] value.tag = "str" -> value
      [] value.tag = "int" -> Str(ToString(value.v))
      [] value.tag = "float" -> Str(ToString(value.v))
      [] value.tag = "bool" -> Str(IF value.v THEN "true" ELSE "false")
      [] value.tag = "time" ->
           Str("2024-01-0" \o ToString(DayOfInstant[value.v]) \o " 00:00:00")
      [] value.tag = "hash" -> Str("$2b$10$" \o ToString(value.v[2]))
      [] value.tag = "list" ->
           Str("[" \o JoinTexts([i \in 1..Len(value.v) |->
                                    IF value.v[i].tag = "str"
                                    THEN "\"" \o value.v[i].v \o "\""
                                    ELSE ToString(value.v[i].v)]) \o "]")

\* cast(column, Text).ilike(f"%{search_query}%") on one value
ilike(value, search_query) ==
    /\ CastText(value) # Null
    /\ Like(CastText(value).v, "%" \o search_query \o "%")

\* the row a many-to-one relationship of `resource` leads to
Related(rt, resource, related_attribute) ==
    IF rt = "mandi-receipt" /\ related_attribute = "mandi"
          /\ KeyOf(resource.mandi_id) \in DOMAIN MandiModel
    THEN {MandiModel[KeyOf(resource.mandi_id)]}
    ELSE {}

\* "a.b".split(".")
Dotted(column_name) == \E i \in 1..Len(column_name) :
                          SubSeq(column_name, i, i) = "."
Split(column_name) ==
    LET dot == CHOOSE i \in 1..Len(column_name) :
                   SubSeq(column_name, i, i) = "."
    IN << SubSeq(column_name, 1, dot - 1),
          SubSeq(column_name, dot + 1, Len(column_name)) >>

\* lines 552-571: the list_display entries that give a search condition
search_query_conditions(rt, display, search_query) ==
    IF search_query = "" THEN {}
    ELSE {i \in 1..Len(display) :
            Dotted(display[i]) \/ display[i] \in ColNames(rt)}

\* an or_ that, like a disjunction of nothing, matches no row
or_search_of_nothing_is_false(rt, display, search_query, resource) ==
    LET conditions == search_query_conditions(rt, display, search_query)
    IN \E i \in conditions :
          IF Dotted(display[i])
          THEN \E related \in Related(rt, resource, Split(display[i])[1]) :
                  ilike(related[Split(display[i])[2]], search_query)
          ELSE ilike(resource[display[i]], search_query)

\* or_(*search_query_conditions) for one row; an or_ of nothing restricts
\* nothing
or_search(rt, display, search_query, resource) ==
    LET conditions == search_query_conditions(rt, display, search_query)
    IN \/ conditions = {}
       \/ \E i \in conditions :
             IF Dotted(display[i])
             THEN \E related \in Related(rt, resource, Split(display[i])[1]) :
                     ilike(related[Split(display[i])[2]], search_query)
             ELSE ilike(resource[display[i]], search_query)

\* func.date(getattr(model, date_field)) of a row, 0 for NULL
DateOf(rt, resource) ==
    LET value == resource[searchable_date_field(rt)]
    IN IF value.tag = "null" THEN 0 ELSE DayOfInstant[value.v]

\* and_(*date_conditions) for one row, from_date and to_date "" when unset
and_dates(rt, from_date, to_date, resource) ==
    /\ from_date # "" =>
          DateOf(rt, resource) # 0 /\ DateOf(rt, resource) >= DayOfText[from_date]
    /\ to_date # "" =>
          DateOf(rt, resource) # 0 /\ DateOf(rt, resource) <= DayOfText[to_date]

\* model.roles.isnot(None), applied to UserModel only (lines 592-598)
role_condition(rt, resource) ==
    rt = "user" => resource.roles.tag # "null"

\* lines 613-624: every dotted list_display entry adds an inner join
joined(rt, display, resource) ==
    \A i \in 1..Len(display) :
        Dotted(display[i])
            => Related(rt, resource, Split(display[i])[1]) # {}

\* the primary keys of the rows the filtered query selects
filter_query(rt, display, search_params) ==
    {id \in DOMAIN db[rt] :
        /\ or_search(rt, display, search_params.search_query, db[rt][id])
        /\ and_dates(rt, search_params.from_date, search_params.to_date,
                     db[rt][id])
        /\ role_condition(rt, db[rt][id])
        /\ joined(rt, display, db[rt][id])}

RECURSIVE order_by_primary_key(_)
\* order_by(primary_key_column): the keys in ascending order
order_by_primary_key(ids) ==
    IF ids = {} THEN <<>>
    ELSE LET first == CHOOSE i \in ids : \A j \in ids : i <= j
         IN <<first>> \o order_by_primary_key(ids \ {first})

\* the page size Query.paginate falls back to when per_page is None and
\* the request carries no per_page argument
DefaultPerPage == 20
\* per_page = 20 of resource_list
ListPerPage == 20
\* per_page=None as resource_download passes it
NoPerPage == 0

\* Query.paginate(page, per_page, error_out=False) over the ordered keys;
\* per_page_arg is the request's own per_page argument, 0 when it has none
paginate(ordered, page, per_page, per_page_arg) ==
    LET size == IF per_page # NoPerPage THEN per_page
                ELSE IF per_page_arg # 0 THEN per_page_arg
                ELSE DefaultPerPage
        at == IF page < 1 THEN 1 ELSE page
        first == (at - 1) * size + 1
        final == IF at * size < Len(ordered) THEN at * size ELSE Len(ordered)
    IN [items |-> SubSeq(ordered, first, final), total |-> Len(ordered)]

\* datetime.strptime(d, "%Y-%m-%d") raises on a text that is no such date
BadDate(d) == d # "" /\ d \notin DOMAIN DayOfText

\* the `sort` attribute of the descriptors (line 674): the item descriptor
\* declares two criteria, the others none
Sort(rt) ==
    IF rt = "item"
    THEN << [sort_by |-> "price", sort_order |-> "DESC"],
            [sort_by |-> "id", sort_order |-> "descending"] >>
    ELSE <<>>

\* a str.lower that leaves the text as it is
lower_unchanged(text) == text

RECURSIVE lower(_)
\* str.lower
lower(text) ==
    IF text = "" THEN ""
    ELSE LowerChar(SubSeq(text, 1, 1)) \o lower(SubSeq(text, 2, Len(text)))

\* a < b as the database orders a column: NULL sorts as the largest value
ColumnLess(a, b) ==
    IF a.tag = "null" THEN FALSE
    ELSE IF b.tag = "null" THEN TRUE
    ELSE a.v < b.v

\* lines 602-610, ORDER BY of the criteria from number k on: row i comes
\* before row j
RECURSIVE Precedes(_, _, _, _, _)
Precedes(rt, sort, k, i, j) ==
    IF k > Len(sort) THEN FALSE
    ELSE LET column_name == sort[k].sort_by
             sort_order == lower(sort[k].sort_order)
             a == db[rt][i][column_name]
             b == db[rt][j][column_name]
         IN \/ IF sort_order = "desc" THEN ColumnLess(b, a)
               ELSE ColumnLess(a, b)
            \/ a = b /\ Precedes(rt, sort, k + 1, i, j)

RECURSIVE order_by(_, _, _)
order_by(rt, ids, sort) ==
    IF ids = {} THEN <<>>
    ELSE LET first == CHOOSE i \in ids :
                         \A j \in ids \ {i} : ~Precedes(rt, sort, 1, j, i)
         IN <<first>> \o order_by(rt, ids \ {first}, sort)

\* lines 600-612 and 629
filter_resources(rt, display, search_params, page, per_page, per_page_arg, sort) ==
    LET ids == filter_query(rt, display, search_params)
    IN paginate(IF Len(sort) > 0 THEN order_by(rt, ids, sort)
                ELSE order_by_primary_key(ids),
                page, per_page, per_page_arg)

(***************************************************************************)
(* resource_list (632-698), resource_download (980-1041),                  *)
(* resource_download_sample (1044-1085).                                   *)
(***************************************************************************)
\* what csv.writer writes for a value: "" for None, str(value) otherwise
CsvText(value) ==
    CASE value.tag = "null" -> ""
      [] value.tag = "str" -> value.v
      [] value.tag = "int" -> ToString(value.v)
      [] value.tag = "float" -> ToString(value.v) \o ".0"
      [] value.tag = "bool" -> IF value.v THEN "True" ELSE "False"
      [] value.tag = "time" ->
           "2024-01-0" \o ToString(DayOfInstant[value.v]) \o " 00:00:00"
      [] value.tag = "hash" -> "$2b$10$" \o ToString(value.v[2])
      [] value.tag = "list" ->
           "[" \o JoinTexts([i \in 1..Len(value.v) |->
                               IF value.v[i].tag = "str"
                               THEN "'" \o value.v[i].v \o "'"
                               ELSE ToString(value.v[i].v)]) \o "]"

Query(search, from_date, to_date, page, per_page) ==
    [search |-> search, from_date |-> from_date, to_date |-> to_date,
     page |-> page, per_page |-> per_page]

resource_list(resource_type, search, from_date, to_date, page) ==
    LET req == [Request("resource_list", "GET", resource_type, 0, EmptyForm)
                  EXCEPT !.query = Query(search, from_date, to_date, page, 0)]
    IN IF get_resource_class(resource_type) = NoClass
       THEN Reply(req, "error")                \* None.model
       ELSE IF BadDate(from_date) \/ BadDate(to_date)
       THEN Reply(req, "error")                \* ValueError
       ELSE
         LET rt == resource_type
             pagination ==
                 filter_resources(rt, list_display(rt),
                     [search_query |-> search, from_date |-> from_date,
                      to_date |-> to_date],
                     page, ListPerPage, 0, Sort(rt))
         IN Reply([req EXCEPT !.storage_read = TRUE,
                     !.result.items = pagination.items,
                     !.result.total = pagination.total], "render")

resource_download(resource_type, search, from_date, to_date, per_page_arg) ==
    LET req == [Request("resource_download", "GET", resource_type, 0,
                        EmptyForm)
                  EXCEPT !.query = Query(search, from_date, to_date, 1,
                                         per_page_arg)]
    IN IF get_resource_class(resource_type) = NoClass
       THEN Reply(req, "error")                \* None.model
       ELSE IF BadDate(from_date) \/ BadDate(to_date)
       THEN Reply(req, "error")                \* ValueError
       ELSE
         LET rt == resource_type
             downloadable_attributes == Names(Columns(rt))
             pagination ==
                 filter_resources(rt, list_display(rt),
                     [search_query |-> search, from_date |-> from_date,
                      to_date |-> to_date],
                     1, NoPerPage, per_page_arg, <<>>)
             resources == pagination.items
         IN Reply([req EXCEPT !.storage_read = TRUE,
                     !.result.items = resources,
                     !.result.total = pagination.total,
                     !.result.header = downloadable_attributes,
                     !.result.lines =
                        [i \in 1..Len(resources) |->
                           [a \in 1..Len(downloadable_attributes) |->
                              CsvText(db[rt][resources[i]]
                                        [downloadable_attributes[a]])]]],
                  "download")

\* a template that lists every column of the table
sample_col_names_of_every_column(resource_type) ==
    Names(Columns(resource_type))

\* col_names of resource_download_sample (lines 1071-1072)
sample_col_names(resource_type) ==
    Names(get_editable_attributes(resource_type))

resource_download_sample(resource_type) ==
    LET req == Request("resource_download_sample", "GET", resource_type, 0,
                       EmptyForm)
    IN IF get_resource_class(resource_type) = NoClass
       THEN Reply(req, "error")                \* None.model
       ELSE
         LET col_names == sample_col_names(resource_type)
         IN Reply([req EXCEPT !.result.header = col_names,
                     !.result.lines = << <<>> >>], "download")

(***************************************************************************)
(* The requests a client can send.                                         *)
(***************************************************************************)
Phones == {"p1", "p2"}
Passwords == {"pw1", "pw2"}

\* the file of the rows `rows` as the sample template lays it out
UploadedFile(rt, rows) ==
    IF rt \in ResourceTypes THEN Layout(Names(Editable[rt]), rows) ELSE NoFile

CsvFilesOf == [rt \in ResourceTypes \cup {UnknownType} |-> CsvFiles(rt)]

Next ==
    \/ \E phone \in Phones, password \in Passwords : login(phone, password)
    \/ \E view \in Views : login_required(view)
    \/ Authenticated /\ logout
    \/ \E rt \in Targets, salt \in Salts :
          /\ Authenticated
          /\ \/ resource_create(rt, "GET", EmptyForm, salt)
             \/ \E form \in FormsOf[rt] : resource_create(rt, "POST", form, salt)
    \/ \E rt \in Targets, id \in Ids :
          Authenticated /\ resource_read(rt, id)
    \/ \E rt \in Targets, id \in Ids, salt \in Salts :
          /\ Authenticated
          /\ \/ \E reasons \in ReasonLists(rt) :
                   resource_edit(rt, id, "GET", EmptyForm, reasons, salt)
             \/ \E form \in FormsOf[rt], reasons \in ReasonLists(rt) :
                   resource_edit(rt, id, "POST", form, reasons, salt)
    \/ \E rt \in Targets, id \in Ids :
          Authenticated /\ resource_delete(rt, id)
    \/ \E rt \in Targets, id \in Ids :
          Authenticated /\ legacy_resource_delete(rt, id)
    \/ \E rt \in Targets :
          /\ Authenticated
          /\ \/ resource_upload(rt, "GET", NoFile, "none")
             \/ resource_upload(rt, "POST", NoFile, "none")
             \/ \E rows \in CsvFilesOf[rt], archive \in ArchiveResults :
                   /\ rt \in ResourceTypes
                         => next_id[rt] + Len(rows) <= MaxId + 1
                   /\ resource_upload(rt, "POST", UploadedFile(rt, rows),
                                      archive)

Spec == Init /\ [][Next]_vars

(***************************************************************************)
(* The read-only routes over stored tables of every size up to             *)
(* MaxEntities.                                                            *)
(***************************************************************************)
\* widget number i of a filled table
WidgetRow(i) ==
    [ id |-> IntV(i),
      name |-> CASE i % 3 = 1 -> Str("Foo")
                 [] i % 3 = 2 -> Str("Bar")
                 [] OTHER -> Null,
      qty |-> IF i % 4 = 0 THEN Null ELSE IntV(i),
      created_at |-> CASE i % 5 \in {0, 1} -> T1
                       [] i % 5 \in {2, 3} -> T0
                       [] OTHER -> T3,
      updated_at |-> T3 ]

\* the tables of resource type rt the read-only routes are run over
StoredTables(rt) ==
    CASE rt = "widget" ->
           {[i \in 1..n |-> WidgetRow(i)] :
               n \in {m \in 0..MaxEntities : m <= 3 \/ m >= MaxEntities - 1}}
      [] rt = "user" ->
           {SeedDb["user"],
            SeedDb["user"]
               @@ (2 :> [SeedUser EXCEPT !.id = IntV(2),
                           !.phone = Str("p2"), !.roles = Null,
                           !.created_at = T1])}
      [] rt = "item" ->
           {(1 :> [id |-> IntV(1), note |-> Str("Foo"), price |-> FloatV(5),
                   due |-> Null, enabled |-> BoolV(TRUE),
                   created_at |-> T0, updated_at |-> T0]),
            (1 :> [id |-> IntV(1), note |-> Str("Foo"), price |-> FloatV(5),
                   due |-> Null, enabled |-> BoolV(TRUE),
                   created_at |-> T0, updated_at |-> T0])
            @@ (2 :> [id |-> IntV(2), note |-> Null, price |-> Null,
                      due |-> Null, enabled |-> Null,
                      created_at |-> T3, updated_at |-> T3]),
            [i \in 1..4 |->
               [id |-> IntV(i),
                note |-> IF i = 2 THEN Null ELSE Str("Foo"),
                price |-> CASE i = 2 -> Null
                            [] i = 4 -> FloatV(7)
                            [] OTHER -> FloatV(5),
                due |-> Null,
                enabled |-> IF i = 2 THEN Null ELSE BoolV(TRUE),
                created_at |-> T0, updated_at |-> T0]]}
      [] rt = "mandi-receipt" ->
           {SeedDb["mandi-receipt"],
            SeedDb["mandi-receipt"]
               @@ (3 :> [SeedReceipt(3, FALSE, 5, <<>>) EXCEPT
                           !.mandi_id = Null, !.mandi_name = Null,
                           !.mandi_name_hi = Null])}

SearchTerms == {"", "fo", "zz", "_"}
\* from_date and to_date of a request, "" when the argument is not sent
DateRanges == { <<"", "">>, <<"2024-01-02", "2024-01-02">>,
                <<"2024-01-02", "">>, <<"", "2024-01-01">>,
                <<"2024-01-03", "2024-01-01">>, <<"", "1/2/24">> }
\* the search arguments of the requests: every term without dates, every
\* date range without a term, and one request with both
SearchParams ==
    {[search_query |-> t, from_date |-> "", to_date |-> ""] :
        t \in SearchTerms}
    \cup {[search_query |-> "", from_date |-> r[1], to_date |-> r[2]] :
             r \in DateRanges}
    \cup {[search_query |-> "fo", from_date |-> "2024-01-02",
            to_date |-> "2024-01-03"]}
Pages == {1, 2}
PerPageArgs == {0, MaxEntities + 1}

InitQuery ==
    /\ active \in ResourceTypes
    /\ \E table \in StoredTables(active) :
          /\ db = [SeedDb EXCEPT ![active] = table]
          /\ next_id = [rt \in ResourceTypes |->
                          Cardinality(DOMAIN db[rt]) + 1]
    /\ revisions = <<>>
    /\ current_user = 1
    /\ last = NoRequest
    /\ sessions = NoSessions
    /\ admin_view = AdminView

NextQuery ==
    \/ \E rt \in Targets, p \in SearchParams :
          Authenticated
             /\ resource_list(rt, p.search_query, p.from_date, p.to_date, 1)
    \/ \E rt \in Targets, page \in Pages \ {1} :
          Authenticated /\ resource_list(rt, "", "", "", page)
    \/ \E rt \in Targets, p \in SearchParams :
          Authenticated
             /\ resource_download(rt, p.search_query, p.from_date,
                                   p.to_date, 0)
    \/ \E rt \in Targets, arg \in PerPageArgs \ {0} :
          Authenticated /\ resource_download(rt, "", "", "", arg)
    \/ \E rt \in Targets : Authenticated /\ resource_download_sample(rt)
    \/ \E rt \in Targets, salt \in Salts :
          Authenticated /\ resource_create(rt, "GET", EmptyForm, salt)
    \/ \E rt \in Targets, id \in Ids :
          Authenticated /\ resource_read(rt, id)
    \/ \E rt \in Targets, id \in Ids, salt \in Salts :
          \E reasons \in ReasonLists(rt) :
             Authenticated
                /\ resource_edit(rt, id, "GET", EmptyForm, reasons, salt)
    \/ \E rt \in Targets :
          Authenticated /\ resource_upload(rt, "GET", NoFile, "none")

SpecQuery == InitQuery /\ [][NextQuery]_vars

(***************************************************************************)
(* Export and import of CSV files over the same stored tables: a file is   *)
(* what resource_download wrote, or rows under a header line whose columns *)
(* stand in any order, with or without columns resource_upload does not    *)
(* read.                                                                   *)
(***************************************************************************)
Reverse(q) == [i \in 1..Len(q) |-> q[Len(q) + 1 - i]]

\* the header lines of the files a client uploads for rt
Headers(rt) ==
    LET col_names == Names(Editable[rt])
    IN {col_names, Reverse(col_names), <<"id">> \o Reverse(col_names),
        col_names \o <<"updated_at">>}

\* the file resource_download has just sent
Downloaded == [header |-> last.result.header, lines |-> last.result.lines]

\* the table of the active type is as stored at the start: nothing has
\* been imported into it
NothingImported == db[active] \in StoredTables(active)

NextCsv ==
    \/ resource_download(active, "", "", "", 0)
    \/ /\ last.op = "resource_download"
       /\ last.outcome = "download"
       /\ last.result.lines # <<>>
       /\ NothingImported
       /\ resource_upload(active, "POST", Downloaded, "none")
    \/ \E rows \in CsvFilesOf[active], header \in Headers(active) :
          /\ NothingImported
          /\ resource_upload(active, "POST", Layout(header, rows), "none")

SpecCsv == InitQuery /\ [][NextCsv]_vars

(***************************************************************************)
(* Concurrent edits.  Every request runs resource_edit in a database       *)
(* session of its own: model.query.get loads the row into the session      *)
(* (lines 833-853), and db.session.commit (line 921) sends an UPDATE of    *)
(* the columns whose attribute no longer holds the loaded value.  Another  *)
(* request can run between the two.                                        *)
(***************************************************************************)
\* an UPDATE that carries a version column and matches no row when the row
\* has changed since it was loaded
update_row_if_unchanged(rt, loaded, resource, current) ==
    IF current # loaded
    THEN [c \in ColNames(rt) |-> Raise("StaleDataError")]
    ELSE [c \in ColNames(rt) |->
            IF resource[c] # loaded[c]
            THEN DbStore(ColType(rt, c), resource[c]) ELSE current[c]]

\* the row the flush of line 921 leaves: UPDATE ... SET the changed
\* columns WHERE the primary key matches; the other columns keep what is
\* committed by then
update_row(rt, loaded, resource, current) ==
    [c \in ColNames(rt) |->
        IF resource[c] # loaded[c]
        THEN DbStore(ColType(rt, c), resource[c]) ELSE current[c]]

\* the forms of the requests that run side by side
RaceInputs(rt) ==
    CASE rt = "widget" -> [name |-> {"Bar", "Baz"}, qty |-> {Absent, "10"}]
      [] rt = "user" -> [phone |-> {"p2", "p3"}, password |-> {Absent}]
      [] rt = "item" -> [note |-> {"Foo", "Bar"}, price |-> {"5"},
                         due |-> {""}, enabled |-> {Absent}]
      [] rt = "mandi-receipt" ->
           [mandi_id |-> {"1", "2"}, is_approved |-> {Absent, "true"}]

RaceForms(rt) ==
    LET fi == RaceInputs(rt)
        all == UNION {fi[k] : k \in DOMAIN fi}
    IN {FormOf(c) : c \in {d \in [DOMAIN fi -> all] :
                              \A k \in DOMAIN fi : d[k] \in fi[k]}}

\* lines 833-853 of request r: the row is loaded and cloned
edit_fetch(r, resource_type, resource_id, form, salt) ==
    /\ sessions[r].pc = "idle"
    /\ resource_id \in DOMAIN db[resource_type]
    /\ sessions' = [sessions EXCEPT ![r] =
          [NoSession EXCEPT !.pc = "fetched", !.rt = resource_type,
                            !.id = resource_id, !.form = form,
                            !.salt = salt,
                            !.resource = db[resource_type][resource_id]]]
    /\ UNCHANGED <<db, next_id, revisions, current_user, active, last, admin_view>>

\* lines 866-936 of request r: assignments, receipt block, commit,
\* revision, hook and redirect
edit_commit(r) ==
    LET s == sessions[r]
        rt == s.rt
        loaded == s.resource
        current == db[rt][s.id]
        cloned == edit_clone(rt, loaded, <<>>)
        assigned == edit_assigned(rt, s.form)
        set_to == [n \in assigned |-> edit_value(rt, s.form, s.salt, n)]
        resource == [c \in DOMAIN cloned |->
                       IF c \in assigned THEN set_to[c] ELSE cloned[c]]
        flow == IF rt = "mandi-receipt"
                THEN receipt_workflow(resource, cloned,
                         "rejection_reason_ids" \notin assigned)
                ELSE [error |-> FALSE, resource |-> resource,
                      old_resource |-> cloned]
        stored == update_row(rt, loaded, flow.resource, current)
        written == handle_resource_revision(rt, flow.old_resource, stored,
                                            current_user)
        req == [Request("resource_edit", "POST", rt, s.id, s.form) EXCEPT
                  !.storage_read = TRUE, !.existed = TRUE, !.pre = loaded,
                  !.editable = Names(Editable[rt]), !.saved = set_to]
        done == [s EXCEPT !.pc = "done", !.stale = (current # loaded),
                   !.seq = 1 + Cardinality({q \in Requests :
                                               sessions[q].pc = "done"})]
    IN /\ s.pc = "fetched"
       /\ sessions' = [sessions EXCEPT ![r] = done]
       /\ IF HasRaise(set_to) \/ flow.error \/ HasRaise(stored)
          THEN /\ last' = [req EXCEPT !.outcome = "error"]
               /\ UNCHANGED <<db, next_id, revisions, current_user, active, admin_view>>
          ELSE /\ db' = [db EXCEPT ![rt][s.id] = stored]
               /\ revisions' = revisions \o written
               /\ last' = [req EXCEPT
                     !.outcome = "redirect",
                     !.steps = edit_steps(s.rt),
                     !.hooks =
                        IF Descriptor(rt).after_update_callback
                        THEN <<Hook("after_update_callback", stored,
                                    flow.old_resource)>>
                        ELSE <<>>]
               /\ UNCHANGED <<next_id, current_user, active, admin_view>>

\* the tables the concurrent requests find: a row under every key
RaceTables(rt) == {t \in StoredTables(rt) : DOMAIN t = Ids}

InitRace ==
    /\ active \in ResourceTypes
    /\ \E table \in RaceTables(active) :
          /\ db = [SeedDb EXCEPT ![active] = table]
          /\ next_id = [rt \in ResourceTypes |->
                          Cardinality(DOMAIN db[rt]) + 1]
    /\ revisions = <<>>
    /\ current_user = 1
    /\ last = NoRequest
    /\ sessions = NoSessions
    /\ admin_view = AdminView

NextRace ==
    \/ \E r \in Requests, id \in Ids, form \in RaceForms(active),
          salt \in Salts :
          Authenticated /\ edit_fetch(r, active, id, form, salt)
    \/ \E r \in Requests : edit_commit(r)

SpecRace == InitRace /\ [][NextRace]_vars

(***************************************************************************)
(* The registry.  The engine has no register call: the descriptors are     *)
(* the classes found in admin_view.py when a request resolves a            *)
(* resource type, so a process starts with whatever classes the file       *)
(* defines.                                                                *)
(***************************************************************************)
\* the descriptor classes a deployment's admin_view.py may define
Classes ==
    { Class("WidgetAdmin", "widget"), Class("StockAdmin", "widget"),
      Class("UserAdmin", "user"), Class("ItemAdmin", "item") }

\* the files of up to MaxClasses classes, no class defined twice
AdminViews ==
    UNION {{f \in [1..n -> Classes] :
               \A i, j \in 1..n : i # j => f[i].class # f[j].class} :
           n \in 0..MaxClasses}

\* one call of get_resource_class, as every handler makes it first
resolve(resource_type) ==
    LET resource_class == get_resource_class(resource_type)
        req == [Request("get_resource_class", "", resource_type, 0,
                        EmptyForm)
                  EXCEPT !.resource_class = resource_class]
    IN Reply(req, IF resource_class = NoClass THEN "none" ELSE "found")

InitRegistry ==
    /\ active \in ResourceTypes
    /\ db = SeedDb
    /\ next_id = [rt \in ResourceTypes |-> Cardinality(DOMAIN db[rt]) + 1]
    /\ revisions = <<>>
    /\ current_user = 1
    /\ last = NoRequest
    /\ sessions = NoSessions
    /\ admin_view \in AdminViews

NextRegistry == \E resource_type \in ResourceTypes : resolve(resource_type)

SpecRegistry == InitRegistry /\ [][NextRegistry]_vars

(***************************************************************************)
(* The receipt routes (src/admin/views.py 1232-1244) next to the login     *)
(* views. Neither route carries @login_required; both hand the request to  *)
(* a function of the host application (import at lines 63-66), which        *)
(* writes to the receipt it is given.                                      *)
(***************************************************************************)
ReceiptIds == DOMAIN SeedDb["mandi-receipt"]
TokenAmounts == {0, 5}

\* /update_approval_status: update_approval_status(current_user) with the
\* receipt and the status of the request; `refused` says that the host's
\* function turns an anonymous current_user away
update_receipt_status(id, approved, refused) ==
    LET req == Request("update_receipt_status", "POST", "mandi-receipt", id,
                       EmptyForm)
    IN IF refused
       THEN /\ ~Authenticated
            /\ Reply(req, "response")
       ELSE /\ db' = [db EXCEPT !["mandi-receipt"][id].is_approved =
                                    BoolV(approved)]
            /\ last' = [req EXCEPT !.outcome = "response"]
            /\ UNCHANGED <<next_id, revisions, current_user, active,
                           sessions, admin_view>>

\* /update-receipt-data: update_extracted_receipt_data(request.json), which
\* is not given the user
update_receipt_data(id, token_amount) ==
    /\ db' = [db EXCEPT !["mandi-receipt"][id].token_amount =
                           IntV(token_amount)]
    /\ last' = [Request("update_receipt_data", "POST", "mandi-receipt", id,
                        EmptyForm) EXCEPT !.outcome = "response"]
    /\ UNCHANGED <<next_id, revisions, current_user, active, sessions,
                   admin_view>>

NextReceipt ==
    \/ \E phone \in Phones, password \in Passwords : login(phone, password)
    \/ \E view \in Views : login_required(view)
    \/ Authenticated /\ logout
    \/ \E id \in ReceiptIds, approved \in BOOLEAN, refused \in BOOLEAN :
          update_receipt_status(id, approved, refused)
    \/ \E id \in ReceiptIds, token_amount \in TokenAmounts :
          update_receipt_data(id, token_amount)

SpecReceipt == Init /\ [][NextReceipt]_vars

(***************************************************************************)
(* Properties.  `last` is the request served by the step into the current  *)
(* state, so a state predicate over `last` and `db` relates a request to   *)
(* the storage it left, and an action formula over last' relates it to the *)
(* storage it found.                                                       *)
(***************************************************************************)
\* the request served last reached its handler for a registered type
Registered(req) ==
    /\ req.outcome # "unauthorized"
    /\ IF req.op = "legacy_resource_delete"
       THEN req.rt \in LegacyTypes
       ELSE req.rt \in ResourceTypes

\* index of the column called name in the schema of rt
ColumnIndex(rt, name) ==
    CHOOSE i \in 1..Len(Columns(rt)) : Columns(rt)[i].name = name

\* the columns C1 says are never editable
NeverEditable(rt) ==
    {"created_at", "updated_at"}
        \cup {Columns(rt)[i].name : i \in {j \in 1..Len(Columns(rt)) :
                                             Columns(rt)[j].pk}}
        \cup (IF Descriptor(rt).has_protected
              THEN Range(Descriptor(rt).protected_attributes) ELSE {})

\* names lists, in schema order and once each, the columns of rt outside
\* NeverEditable(rt)
InSchemaOrder(rt, names) ==
    /\ Range(names) = ColNames(rt) \ NeverEditable(rt)
    /\ \A i, j \in 1..Len(names) :
          i < j => ColumnIndex(rt, names[i]) < ColumnIndex(rt, names[j])

\* C1: get_editable_attributes returns exactly the schema's columns, in
\* schema order, minus the primary key, created_at, updated_at and the
\* descriptor's protected_attributes; the create and edit forms are built
\* from that list.
C1_EditableAttributes ==
    /\ \A rt \in ResourceTypes :
          LET e == get_editable_attributes(rt)
          IN /\ InSchemaOrder(rt, Names(e))
             /\ \A i \in 1..Len(e) :
                   e[i] = Columns(rt)[ColumnIndex(rt, e[i].name)]
    /\ (last.op \in {"resource_create", "resource_edit"}
          /\ last.outcome = "render")
       => InSchemaOrder(last.rt, last.editable)

\* a form rendered for the type that has protected attributes
C1_Witness ==
    /\ last.op = "resource_edit"
    /\ last.outcome = "render"
    /\ last.rt = "user"
    /\ last.editable = <<"phone", "password">>

\* a POST to resource_edit, for a stored row, that was committed
EditCommitted ==
    /\ last.op = "resource_edit"
    /\ last.method = "POST"
    /\ last.existed
    /\ last.outcome = "redirect"

\* the columns the receipt block of resource_edit rewrites on every POST
ReceiptDerived ==
    {"rejection_reason_ids", "mandi_name", "mandi_name_hi", "crop_name",
     "crop_name_hi", "is_approved", "token_amount"}

C3_MissingIdRedirects ==
    [][ (/\ last'.op \in {"resource_read", "resource_edit"}
         /\ Registered(last')
         /\ last'.id \notin DOMAIN db[last'.rt])
        => (/\ last'.outcome = "redirect"
            /\ db' = db
            /\ revisions' = revisions) ]_vars

\* C4: a resource route addressed with a resource type that matches no
\* descriptor replies with a redirect, reads no storage and changes none.
C4_UnknownTypeNotFound ==
    [][ (/\ last'.rt \notin ResourceTypes
         /\ last'.op \in {"resource_create", "resource_read",
                          "resource_edit", "resource_delete",
                          "resource_upload"}
         /\ last'.outcome # "unauthorized")
        => (/\ last'.outcome = "redirect"
            /\ ~last'.storage_read
            /\ db' = db
            /\ revisions' = revisions) ]_vars

\* C5: a delete addressed to an id that is not stored changes nothing,
\* calls no hook and redirects; a delete of a stored row removes that row
\* only, and after_delete_callback runs only then, with the removed row.
C5_DeleteAbsent ==
    [][ (/\ last'.op \in {"resource_delete", "legacy_resource_delete"}
         /\ Registered(last'))
        => /\ last'.outcome = "redirect"
           /\ revisions' = revisions
           /\ IF last'.id \in DOMAIN db[last'.rt]
              THEN /\ db' = [db EXCEPT ![last'.rt] =
                                WithoutRow(@, last'.id)]
                   /\ \A i \in 1..Len(last'.hooks) :
                         /\ last'.hooks[i].name = "after_delete_callback"
                         /\ last'.hooks[i].resource = db[last'.rt][last'.id]
              ELSE /\ db' = db
                   /\ last'.hooks = <<>> ]_vars

\* a delete of a row that had been created and deleted before, on the type
\* that declares after_delete_callback
C5_Witness ==
    /\ last.op = "resource_delete"
    /\ last.rt = "widget"
    /\ ~last.existed
    /\ last.id < next_id["widget"]
    /\ last.outcome = "redirect"
    /\ last.hooks = <<>>

\* the step is a committed POST to resource_edit for a stored row
EditStep ==
    /\ last'.op = "resource_edit"
    /\ last'.method = "POST"
    /\ last'.outcome = "redirect"
    /\ last'.id \in DOMAIN db[last'.rt]

\* the step changed the stored value of some non-system column of the row
EditChangedRow ==
    \E c \in ColNames(last'.rt) \ SystemColumns :
        db'[last'.rt][last'.id][c] # db[last'.rt][last'.id][c]

\* C6: a committed POST edit that leaves every non-system column of the
\* row equal to its stored value writes no Revision Record, whatever the
\* descriptor declares.
C6_NoChangeNoRevision ==
    [][ (EditStep /\ ~EditChangedRow) => revisions' = revisions ]_vars

\* C7: a committed POST edit that changes a non-system column writes, when
\* the descriptor opts into revisioning, exactly one Revision Record that
\* holds the values stored before the request, the row's id under
\* revision_pk and the acting user under edited_by, and writes none when
\* the descriptor does not; the old_resource handed to
\* after_update_callback holds the values stored before the request.
C7_RevisionHoldsPriorValues ==
    [][ (EditStep /\ EditChangedRow) =>
          LET rt == last'.rt
              D == Descriptor(rt)
              prior == db[rt][last'.id]
          IN /\ IF D.revisions /\ D.has_revision_model
                THEN /\ Len(revisions') = Len(revisions) + 1
                     /\ SubSeq(revisions', 1, Len(revisions)) = revisions
                     /\ LET written == revisions'[Len(revisions')]
                        IN /\ written.rt = rt
                           /\ written.row =
                                [c \in (ColNames(rt) \ SystemColumns)
                                         \cup {D.revision_pk, "edited_by"} |->
                                    IF c = D.revision_pk THEN prior.id
                                    ELSE IF c = "edited_by"
                                         THEN IntV(current_user)
                                         ELSE prior[c]]
                ELSE revisions' = revisions
             /\ \A i \in 1..Len(last'.hooks) :
                   last'.hooks[i].old = prior ]_vars

\* C8: no stored row holds the secret field as raw text: it is null or a
\* hash, whichever of resource_create, resource_edit and resource_upload
\* wrote it.
C8_SecretNeverRaw ==
    \A rt \in ResourceTypes : \A id \in DOMAIN db[rt] :
        SecretField \in DOMAIN db[rt][id]
            => db[rt][id][SecretField].tag \in {"null", "hash"}

C10_CreateCoerces ==
    (last.op = "resource_create" /\ last.method = "POST" /\ Registered(last))
    => \A n \in DOMAIN last.form \cap EditableNames(last.rt) :
          (/\ Contains("INT", ColType(last.rt, n))
                 \/ ColType(last.rt, n) = "FLOAT"
           /\ last.form[n] # "")
          => IF last.form[n] \in Numerals
             THEN /\ last.outcome = "redirect"
                  /\ db[last.rt][last.id][n] = IntV(ParseInt(last.form[n]))
             ELSE ~(n \in DOMAIN last.saved /\ last.saved[n].tag = "str")

\* the raw input of field n in the form is empty or missing
BlankInput(form, n) == n \notin DOMAIN form \/ form[n] = ""

\* C11: on a POST to resource_create an editable field whose raw input is
\* empty or missing is stored as null, whatever its type, and a create
\* whose inputs are all empty or missing completes normally.
C11_BlankCreatesNull ==
    (last.op = "resource_create" /\ last.method = "POST" /\ Registered(last))
    => /\ last.outcome = "redirect" =>
             \A n \in EditableNames(last.rt) :
                BlankInput(last.form, n)
                    => db[last.rt][last.id][n] = Null
       /\ (\A n \in EditableNames(last.rt) : BlankInput(last.form, n))
             => last.outcome = "redirect"

\* the texts that equal "true" when case is ignored
TrueTexts == {"true", "True", "TRUE"}

\* C12: a non-empty raw input for a boolean field is stored as true when
\* it equals "true" with case ignored and as false otherwise, by a
\* committed create, a committed edit and a completed CSV import alike.
C12_BooleanCoercion ==
    /\ (/\ last.op \in {"resource_create", "resource_edit"}
        /\ last.method = "POST"
        /\ Registered(last)
        /\ last.outcome = "redirect"
        /\ last.id \in DOMAIN db[last.rt])
       => \A n \in DOMAIN last.form \cap EditableNames(last.rt) :
             (ColType(last.rt, n) = "BOOLEAN" /\ last.form[n] # "")
                => db[last.rt][last.id][n]
                      = BoolV(last.form[n] \in TrueTexts)
    /\ (/\ last.op = "resource_upload"
        /\ last.method = "POST"
        /\ Registered(last)
        /\ last.outcome = "redirect")
       => \A i \in 1..Len(last.csv) :
             \A n \in DOMAIN last.csv[i] \cap EditableNames(last.rt) :
                (ColType(last.rt, n) = "BOOLEAN" /\ last.csv[i][n] # "")
                   => db[last.rt][next_id[last.rt] - Len(last.csv) + i - 1][n]
                         = BoolV(last.csv[i][n] \in TrueTexts)

\* the request served last ran filter_resources for a registered type
Filtered ==
    /\ last.op \in {"resource_list", "resource_download"}
    /\ Registered(last)
    /\ last.outcome \in {"render", "download"}

\* the date field of row id lies in the inclusive range of the request
InDateRange(id) ==
    LET day == DateOf(last.rt, db[last.rt][id])
    IN /\ last.query.from_date # ""
          => day # 0 /\ day >= DayOfText[last.query.from_date]
       /\ last.query.to_date # ""
          => day # 0 /\ day <= DayOfText[last.query.to_date]

\* the rows a query without any search predicate selects
WithoutSearch ==
    {id \in DOMAIN db[last.rt] :
        /\ InDateRange(id)
        /\ role_condition(last.rt, db[last.rt][id])
        /\ joined(last.rt, list_display(last.rt), db[last.rt][id])}

\* C13: with the empty string as search term the list view and the CSV
\* export select exactly the rows a query without search predicate
\* selects, for every descriptor and date range.
C13_EmptySearchIsNoFilter ==
    (Filtered /\ last.query.search = "")
    => /\ last.result.total = Cardinality(WithoutSearch)
       /\ Range(last.result.items) \subseteq WithoutSearch
       /\ (last.query.page = 1 /\ last.result.total <= DefaultPerPage)
             => Range(last.result.items) = WithoutSearch

\* an export with an empty term and a date range that keeps some rows and
\* drops others
C13_Witness ==
    /\ Filtered
    /\ last.op = "resource_download"
    /\ last.query.search = ""
    /\ last.query.from_date = "2024-01-02"
    /\ last.result.total > 0
    /\ last.result.total < Cardinality(DOMAIN db[last.rt])
    /\ Len(last.result.lines) = last.result.total

\* text contains term as a substring, case ignored
ContainsText(text, term) ==
    \E i \in 1..(Len(text) - Len(term) + 1) :
        \A k \in 1..Len(term) :
            LowerChar(SubSeq(text, i + k - 1, i + k - 1))
                = LowerChar(SubSeq(term, k, k))

\* some list_display field of row id, plain or dotted, contains the term
SomeFieldContains(id, term) ==
    LET display == list_display(last.rt)
        resource == db[last.rt][id]
    IN \E i \in 1..Len(display) :
          IF Dotted(display[i])
          THEN \E related \in Related(last.rt, resource, Split(display[i])[1]) :
                  /\ CastText(related[Split(display[i])[2]]) # Null
                  /\ ContainsText(CastText(related[Split(display[i])[2]]).v,
                                  term)
          ELSE /\ display[i] \in ColNames(last.rt)
               /\ CastText(resource[display[i]]) # Null
               /\ ContainsText(CastText(resource[display[i]]).v, term)

\* C14: with a non-empty search term a row is selected if and only if
\* some list_display field contains the term as a case-insensitive
\* substring and its date field lies in the inclusive date range; a term
\* no row contains selects nothing and total is 0.
C14_SearchIsSubstring ==
    (Filtered /\ last.query.search # "")
    => LET matching == {id \in DOMAIN db[last.rt] :
                          /\ SomeFieldContains(id, last.query.search)
                          /\ InDateRange(id)}
       IN /\ last.result.total = Cardinality(matching)
          /\ Range(last.result.items) \subseteq matching
          /\ matching = {} => last.result.items = <<>>

\* C15: the CSV export has one data row for every row the search and date
\* filters select, however many they are.
C15_ExportIsUnpaginated ==
    (Filtered /\ last.op = "resource_download")
    => /\ Len(last.result.lines) = last.result.total
       /\ last.result.total
             = Cardinality(filter_query(last.rt, list_display(last.rt),
                              [search_query |-> last.query.search,
                               from_date |-> last.query.from_date,
                               to_date |-> last.query.to_date]))

\* C16: the sample template is the editable field names in schema order
\* and one blank row, its header is the column set resource_upload reads,
\* and the export's header is every column of the schema in order.
C16_SampleHeader ==
    /\ (last.op = "resource_download_sample" /\ Registered(last))
       => /\ last.outcome = "download"
          /\ InSchemaOrder(last.rt, last.result.header)
          /\ last.result.lines = << <<>> >>
          /\ Range(last.result.header) = EditableNames(last.rt)
          /\ last.result.header = Names(Editable[last.rt])
    /\ (last.op = "resource_download" /\ Filtered)
       => /\ Len(last.result.header) = Len(Columns(last.rt))
          /\ \A i \in 1..Len(Columns(last.rt)) :
                last.result.header[i] = Columns(last.rt)[i].name
          /\ \A i \in 1..Len(last.result.lines) :
                Len(last.result.lines[i]) = Len(Columns(last.rt))

\* a sample template for the type with a protected attribute
C16_Witness ==
    /\ last.op = "resource_download_sample"
    /\ last.rt = "user"
    /\ last.outcome = "download"
    /\ last.result.header = <<"phone", "password">>
    /\ last.result.lines = << <<>> >>

\* the step served a CSV import that got as far as reading the file
UploadStep ==
    /\ last'.op = "resource_upload"
    /\ last'.method = "POST"
    /\ Registered(last')
    /\ last'.storage_read

\* row i of the imported file raises, in its conversion or in its INSERT
RowFails(rt, frame, i, id) ==
    \/ HasRaise(upload_attributes(rt, frame[i]))
    \/ HasRaise(NewRow(rt, id, upload_attributes(rt, frame[i])))

\* C17: the CSV import commits row by row: when row k fails the rows
\* before it are stored, under consecutive new keys, and no row is created
\* for row k or any later one; without a failure every row is stored.
C17_UploadCommitsPerRow ==
    [][UploadStep =>
        LET rt == last'.rt
            frame == read_csv(last'.csv)
            created == DOMAIN db'[rt] \ DOMAIN db[rt]
            k == Cardinality(created)
        IN /\ k <= Len(frame)
           /\ created = next_id[rt]..(next_id[rt] + k - 1)
           /\ next_id'[rt] = next_id[rt] + k
           /\ \A id \in DOMAIN db[rt] :
                 id \in DOMAIN db'[rt] /\ db'[rt][id] = db[rt][id]
           /\ \A i \in 1..k :
                 /\ ~RowFails(rt, frame, i, next_id[rt] + i - 1)
                 /\ db'[rt][next_id[rt] + i - 1]
                       = NewRow(rt, next_id[rt] + i - 1,
                                upload_attributes(rt, frame[i]))
           /\ last'.outcome = "redirect" => k = Len(frame)
           /\ last'.outcome # "redirect"
                 => /\ last'.outcome = "error"
                    /\ k < Len(frame)
                    /\ RowFails(rt, frame, k + 1, next_id[rt] + k)
           /\ \A other \in ResourceTypes \ {rt} : db'[other] = db[other]
    ]_vars

\* an import whose second row is refused by the INTEGER column after the
\* first row was stored
C17_Witness ==
    /\ last.op = "resource_upload"
    /\ last.rt = "widget"
    /\ last.outcome = "error"
    /\ Len(last.csv) = 2
    /\ last.csv[1].qty = "10"
    /\ last.csv[2].qty = "abc"
    /\ DOMAIN db["widget"] = {1}
    /\ db["widget"][1].qty = IntV(10)
    /\ next_id["widget"] = 2

\* the text of a CSV cell is blank or a proper literal of the column's type
WellFormedCell(rt, n, text) ==
    \/ text = ""
    \/ ColType(rt, n) \in {"INTEGER", "FLOAT"} => text \in Numerals

\* C18: an import of n rows whose cells are well-formed or blank creates n
\* rows, and every blank cell is stored as null whatever the column's
\* type.
C18_BlankCellsImportNull ==
    [][(/\ UploadStep
        /\ \A i \in 1..Len(last'.csv) : \A n \in EditableNames(last'.rt) :
              WellFormedCell(last'.rt, n, last'.csv[i][n]))
       => /\ last'.outcome = "redirect"
          /\ next_id'[last'.rt] = next_id[last'.rt] + Len(last'.csv)
          /\ \A i \in 1..Len(last'.csv) : \A n \in EditableNames(last'.rt) :
                last'.csv[i][n] = ""
                => db'[last'.rt][next_id[last'.rt] + i - 1][n] = Null
    ]_vars

\* the step imported the file that the export before it had written
ReimportStep ==
    /\ last.op = "resource_download"
    /\ last.outcome = "download"
    /\ last.result.lines # <<>>
    /\ UploadStep
    /\ last'.file = Downloaded

\* C19: exporting a table and importing the export again creates, for
\* every exported row, a row with the same value in every editable field
\* other than the protected one, whatever the field's type.
C19_ExportImportRoundTrip ==
    [][ReimportStep =>
         /\ last'.outcome = "redirect"
         /\ \A i \in 1..Len(last.result.items) :
               \A n \in EditableNames(last.rt) \ {SecretField} :
                  db'[last.rt][next_id[last.rt] + i - 1][n]
                     = db[last.rt][last.result.items[i]][n]
    ]_vars

\* the cell of data line i of the file under the header cell n
CellOf(file, i, n) ==
    file.lines[i][CHOOSE a \in 1..Len(file.header) : file.header[a] = n]

\* the cells of the file under the header line `header`; a column the file
\* does not have is filled with OtherCell
Relayout(file, header) ==
    [header |-> header,
     lines |-> [i \in 1..Len(file.lines) |->
                  [a \in 1..Len(header) |->
                     IF header[a] \in Range(file.header)
                     THEN CellOf(file, i, header[a]) ELSE OtherCell]]]

\* the table an import of the file leaves
Imported(rt, file) ==
    upload_rows(rt, read_csv(usecols(file, Names(Editable[rt]))),
                db[rt], next_id[rt])

\* C20: the result of an import does not depend on the order of the
\* file's columns, and columns that are not editable are ignored: the same
\* cells under any other header line leave the same table and outcome.
C20_ColumnOrderIrrelevant ==
    [][UploadStep =>
         \A header \in Headers(last'.rt) :
            LET other == Imported(last'.rt, Relayout(last'.file, header))
            IN /\ db'[last'.rt] = other.table
               /\ next_id'[last'.rt] = other.next_id
               /\ (last'.outcome = "error") = other.error
    ]_vars

\* an import of a file with a leading id column and the editable columns
\* in reverse order
C20_Witness ==
    /\ last.op = "resource_upload"
    /\ last.rt = "widget"
    /\ last.outcome = "redirect"
    /\ last.file.header = <<"id", "qty", "name">>
    /\ last.file.lines = << <<"7", "10", "Foo">> >>
    /\ db["widget"][next_id["widget"] - 1].name = Str("Foo")
    /\ db["widget"][next_id["widget"] - 1].qty = IntV(10)

\* request r commits in this step
CommitStep(r) == sessions[r].pc = "fetched" /\ sessions'[r].pc = "done"

\* C21: resource_edit checks no version: a request that loaded the row
\* before another request committed still commits, and every field it
\* submits with a value other than the one it loaded is stored as
\* submitted, over whatever the earlier commit wrote there.
C21_NoVersionCheck ==
    [][\A r \in Requests :
         CommitStep(r) =>
            LET s == sessions[r]
                derived == IF s.rt = "mandi-receipt"
                           THEN ReceiptDerived ELSE {}
            IN /\ last'.outcome = "redirect"
               /\ \A n \in edit_assigned(s.rt, s.form) \ derived :
                     LET value == DbStore(ColType(s.rt, n),
                                     edit_value(s.rt, s.form, s.salt, n))
                     IN edit_value(s.rt, s.form, s.salt, n) # s.resource[n]
                           => db'[s.rt][s.id][n] = value
    ]_vars

\* a lost update: two requests loaded the same row before either
\* committed, both committed, and the field both submitted holds the later
\* request's value
C21_Witness ==
    \E r1, r2 \in Requests :
        /\ sessions[r1].pc = "done" /\ sessions[r1].seq = 1
        /\ sessions[r2].pc = "done" /\ sessions[r2].seq = 2
        /\ sessions[r2].stale
        /\ sessions[r1].rt = "widget" /\ sessions[r1].id = sessions[r2].id
        /\ sessions[r1].form = [name |-> "Bar"]
        /\ sessions[r2].form = [name |-> "Baz"]
        /\ sessions[r2].resource.name = Str("Foo")
        /\ last.outcome = "redirect"
        /\ db["widget"][sessions[r2].id].name = Str("Baz")

\* C22: resource-type identifiers are unique, so that a resolved
\* identifier is the name of exactly one descriptor class: a file with two
\* descriptors of the same identifier is refused at startup and never
\* resolved.
C22_IdentifiersUnique ==
    (last.op = "get_resource_class" /\ last.outcome = "found")
    => Cardinality({i \in 1..Len(admin_view) :
                      admin_view[i].name = last.rt}) = 1

HookOf(op) ==
    CASE op = "resource_create" -> "after_create_callback"
      [] op = "resource_edit" -> "after_update_callback"
      [] op = "resource_delete" -> "after_delete_callback"
      [] OTHER -> "none"

StepsAt(steps, step) == {i \in 1..Len(steps) : steps[i] = step}

\* C23: a lifecycle hook runs only in a create, update or delete request,
\* only after that request's commit succeeded, at most once, and only when
\* the descriptor declares it; the create hook receives the stored new
\* entity, the update hook runs after revision handling, and a request
\* that raised ran no hook
C23_HooksAfterCommit ==
    /\ Len(last.hooks) <= 1
    /\ last.outcome = "error" => last.hooks = <<>>
    /\ last.hooks # <<>> =>
          LET hook == last.hooks[1].name
          IN /\ hook = HookOf(last.op)
             /\ Descriptor(last.rt)[hook]
             /\ last.outcome = "redirect"
             /\ Cardinality(StepsAt(last.steps, hook)) = 1
             /\ \A h \in StepsAt(last.steps, hook) :
                   /\ \E c \in StepsAt(last.steps, "commit") : c < h
                   /\ \A v \in StepsAt(last.steps,
                                       "handle_resource_revision") : v < h
             /\ last.op = "resource_edit" =>
                   StepsAt(last.steps, "handle_resource_revision") # {}
             /\ last.op = "resource_create" =>
                   /\ last.id \in DOMAIN db[last.rt]
                   /\ last.hooks[1].resource = db[last.rt][last.id]

C23_Witness ==
    /\ last.op = "resource_edit"
    /\ last.rt = "widget"
    /\ last.outcome = "redirect"
    /\ revisions # <<>>
    /\ last.hooks # <<>>
    /\ last.hooks[1].resource = db[last.rt][last.id]

\* the spellings of 'desc'
DescTexts == {"desc", "Desc", "DESC"}

\* the criteria filter_resources was given by the request served last
SortOf(req) == IF req.op = "resource_list" THEN Sort(req.rt) ELSE <<>>

\* rows x and y stand in the order of the criteria: on the first criterion
\* whose column tells them apart x comes first, NULLs aside; without
\* criteria the smaller key comes first
InOrder(rt, sort, x, y) ==
    IF sort = <<>> THEN x < y
    ELSE LET differ == {k \in 1..Len(sort) :
                          db[rt][x][sort[k].sort_by]
                             # db[rt][y][sort[k].sort_by]}
         IN differ # {} =>
              LET k == CHOOSE d \in differ : \A e \in differ : d <= e
                  a == db[rt][x][sort[k].sort_by]
                  b == db[rt][y][sort[k].sort_by]
              IN (a.tag # "null" /\ b.tag # "null") =>
                    IF sort[k].sort_order \in DescTexts THEN a.v > b.v
                    ELSE a.v < b.v

\* the rows the query of the request served last selects
Selected ==
    filter_query(last.rt, list_display(last.rt),
                 [search_query |-> last.query.search,
                  from_date |-> last.query.from_date,
                  to_date |-> last.query.to_date])

PageSize ==
    IF last.op = "resource_list" THEN ListPerPage
    ELSE IF last.query.per_page # 0 THEN last.query.per_page
    ELSE DefaultPerPage

\* C24: the rows of a page stand in the order of the descriptor's sort
\* criteria, taken in the order given, descending for 'desc' in any case
\* and ascending for every other word; without criteria they stand in
\* ascending order of the primary key, and the page holds exactly the
\* rows whose rank among the selected keys falls on it
C24_Ordering ==
    Filtered =>
       LET items == last.result.items
           sort == SortOf(last)
       IN /\ \A k, l \in 1..Len(items) :
                k < l => InOrder(last.rt, sort, items[k], items[l])
          /\ sort = <<>> =>
                \A k \in 1..Len(items) :
                   Cardinality({i \in Selected : i < items[k]})
                      = (last.query.page - 1) * PageSize + k - 1

C24_Witness ==
    /\ Filtered
    /\ last.op = "resource_list"
    /\ last.rt = "item"
    /\ last.result.items = <<2, 4, 1, 3>>

\* C25: every editable field of a row the CSV import stores holds what
\* validate_resource_attribute makes of the cell's text for that field,
\* whatever the field's type and the text.
C25_ImportCoercesAsCreate ==
    [][(UploadStep /\ last'.outcome = "redirect") =>
         \A i \in 1..Len(last'.csv) : \A n \in EditableNames(last'.rt) :
            db'[last'.rt][next_id[last'.rt] + i - 1][n]
               = DbStore(ColType(last'.rt, n),
                         validate_resource_attribute(
                             AttrOf(last'.rt, n), Str(last'.csv[i][n])))
    ]_vars

\* C26: the archive is attempted only when every row of the file has been
\* committed, and whatever the object storage does with the file (no key
\* configured, an exception, or a URL) the rows stay stored and the request
\* ends in the redirect.
C26_ArchiveIsBestEffort ==
    [][UploadStep =>
         LET rt == last'.rt
             rows == 1..Len(last'.csv)
         IN /\ last'.archive # "" =>
                  /\ last'.outcome = "redirect"
                  /\ next_id'[rt] = next_id[rt] + Len(last'.csv)
                  /\ \A i \in rows : next_id[rt] + i - 1 \in DOMAIN db'[rt]
                  /\ \A id \in DOMAIN db[rt] :
                        id \in DOMAIN db'[rt] /\ db'[rt][id] = db[rt][id]
            /\ last'.outcome = "error" =>
                  \E i \in rows : RowFails(rt, read_csv(last'.csv), i,
                                           next_id'[rt])
    ]_vars

C26_Witness ==
    /\ last.op = "resource_upload"
    /\ last.archive = "exception"
    /\ last.outcome = "redirect"
    /\ Len(last.csv) = MaxRows
    /\ \A i \in 1..MaxRows : next_id[last.rt] - i \in DOMAIN db[last.rt]

\* the routes of the blueprint that write to storage
StateChangingRoutes ==
    {"resource_create", "resource_edit", "resource_delete",
     "resource_upload", "update_receipt_status", "update_receipt_data"}

\* C27: a request of an anonymous client to a route that changes stored
\* state is turned away before the view runs, and leaves every stored
\* entity as it was.
C27_WritesNeedLogin ==
    [][(~Authenticated /\ last'.op \in StateChangingRoutes) =>
          /\ last'.outcome = "unauthorized"
          /\ db' = db
          /\ revisions' = revisions]_vars

\* the request served last carried no search term and no date
Unfiltered ==
    /\ Filtered
    /\ last.query.search = ""
    /\ last.query.from_date = ""
    /\ last.query.to_date = ""

\* C28: without a search term and without dates the pages of the list
\* and the export count every stored entity of the type, no page shows an
\* entity twice, and a table that fits one page is shown and exported
\* whole.
C28_EveryEntityListedOnce ==
    Unfiltered =>
       LET items == last.result.items
           stored == DOMAIN db[last.rt]
       IN /\ last.result.total = Cardinality(stored)
          /\ \A k, l \in 1..Len(items) : items[k] = items[l] => k = l
          /\ (last.query.page = 1 /\ Cardinality(stored) <= PageSize)
                => Range(items) = stored

\* C29: a committed POST edit leaves no editable field null that held a
\* value before and was submitted with a non-empty text, whatever the
\* field's type and the text.
C29_NonEmptyInputKeepsValue ==
    [][EditStep =>
         \A n \in EditableNames(last'.rt) :
            (/\ n \in DOMAIN last'.form
             /\ last'.form[n] # ""
             /\ db[last'.rt][last'.id][n] # Null)
            => db'[last'.rt][last'.id][n] # Null
    ]_vars

GetRoutes ==
    {"resource_create", "resource_edit", "resource_read", "resource_list",
     "resource_upload", "resource_download", "resource_download_sample"}

GetStep == last'.method = "GET" /\ last'.op \in GetRoutes

=============================================================================
